---------------------------- MODULE Spec2Model ----------------------------
(***************************************************************************)
(* Model of the leadership-content-harvester ingestion pipeline:           *)
(*   - TranscriptService.get_transcript and its fallback chain             *)
(*     (src/leadership-content-harvester/src/services/transcript_service.py)*)
(*   - the text normalisation it formats with (src/.../utils/cleaning.py)  *)
(*   - the normal-mode orchestrator, process_video and main                *)
(*     (src/leadership-content-harvester/main.py) over MilvusService       *)
(*   - get_chunked_transcript, EmbeddingService.generate_embeddings and    *)
(*     MilvusService (collection setup, existence check, insert), each     *)
(*     also as a specification of its own                                  *)
(*                                                                         *)
(* Text is a sequence of tokens.  A token stands for one character class   *)
(* of the input, chosen so that every branch of clean_transcript_text is   *)
(* reachable:                                                              *)
(*   "a"  an ordinary ASCII letter that is no escape letter ('k')          *)
(*   "s"  a whitespace character (' ')                                     *)
(*   "c"  a control character that is not whitespace ('\x01')              *)
(*   "b"  a backslash                                                      *)
(*   "U"  the five characters u0131 (the tail of an escaped dotless i)     *)
(*   "i"  the decoded Turkish character (output only)                      *)
(*   "m"  a latin-1 letter produced by decoding a non-ASCII character      *)
(***************************************************************************)
EXTENDS Integers, Sequences, FiniteSets, TLC

\* ------------------------------------------------------------- bounds
MaxCapLen == 1      \* tokens in one caption payload (all fragments together)
MaxFrags == 2       \* fragments in one caption payload
MaxTextLen == 3     \* tokens in one speech-to-text result
MaxTracks == 2      \* caption tracks listed for one source
MaxRuns == 2        \* runs of main in one behaviour
MaxDocLen == 4      \* characters in one transcript handed to the chunker
MaxChunkSize == 3   \* largest chunk_size configured
MaxOverlap == 3     \* largest overlap configured
MaxChunks == 3      \* texts in one generate_embeddings call
MaxBatch == 3       \* largest batch_size of the embedding service
MaxStored == 2      \* records the collection holds before an insert call
MaxRows == 2        \* rows the Transcripts sheet holds before an append call
MaxShared == 2      \* rows the sheet holds before a concurrent append reads it
MaxAppends == 2     \* append calls that wrote the sheet a recovery run reads

Alphabet == {"a", "s", "c", "b", "U"}

\* ------------------------------------------------ cleaning.py (tokens)
\* '\\u' in text
HasEscape(t) == \E j \in 1..(Len(t) - 1) : t[j] = "b" /\ t[j + 1] = "U"

\* text.encode().decode('unicode_escape') raises UnicodeDecodeError: a
\* backslash that ends the text after the escapes before it are consumed.
RECURSIVE DecodeFails(_)
DecodeFails(t) ==
    IF t = <<>> THEN FALSE
    ELSE IF Head(t) = "b"
         THEN IF Len(t) = 1 THEN TRUE
              ELSE IF t[2] \in {"b", "U"} THEN DecodeFails(Tail(Tail(t)))
                   ELSE DecodeFails(Tail(t))
         ELSE DecodeFails(Tail(t))

\* text.encode().decode('unicode_escape') when it does not raise: \\ is a
\* backslash, ı is the character, an unknown escape keeps its backslash,
\* and a non-ASCII character is read back as its two UTF-8 bytes in latin-1.
RECURSIVE UnicodeEscapeDecode(_)
UnicodeEscapeDecode(t) ==
    IF t = <<>> THEN <<>>
    ELSE IF Head(t) = "b" /\ Len(t) >= 2 /\ t[2] = "b"
         THEN <<"b">> \o UnicodeEscapeDecode(Tail(Tail(t)))
    ELSE IF Head(t) = "b" /\ Len(t) >= 2 /\ t[2] = "U"
         THEN <<"i">> \o UnicodeEscapeDecode(Tail(Tail(t)))
    ELSE IF Head(t) = "i"
         THEN <<"m", "m">> \o UnicodeEscapeDecode(Tail(t))
    ELSE <<Head(t)>> \o UnicodeEscapeDecode(Tail(t))

\* the replacements table: an escape still in the text becomes its character
RECURSIVE ReplaceEscapes(_)
ReplaceEscapes(t) ==
    IF t = <<>> THEN <<>>
    ELSE IF Head(t) = "b" /\ Len(t) >= 2 /\ t[2] = "U"
         THEN <<"i">> \o ReplaceEscapes(Tail(Tail(t)))
    ELSE <<Head(t)>> \o ReplaceEscapes(Tail(t))

normalize_turkish_text(t) ==
    LET decoded == IF HasEscape(t) /\ ~DecodeFails(t)
                   THEN UnicodeEscapeDecode(t) ELSE t
    IN  ReplaceEscapes(decoded)

\* re.sub(r'\s+', ' ', text)
RECURSIVE CollapseSpaces(_)
CollapseSpaces(t) ==
    IF Len(t) < 2 THEN t
    ELSE IF t[1] = "s" /\ t[2] = "s" THEN CollapseSpaces(Tail(t))
    ELSE <<Head(t)>> \o CollapseSpaces(Tail(t))

\* re.sub(r'[\x00-\x1F\x7F-\x9F]', '', text)
RemoveControl(t) == SelectSeq(t, LAMBDA x : x # "c")

\* str.strip()
RECURSIVE LStrip(_)
LStrip(t) == IF t # <<>> /\ Head(t) = "s" THEN LStrip(Tail(t)) ELSE t

RECURSIVE RStrip(_)
RStrip(t) ==
    IF t # <<>> /\ t[Len(t)] = "s" THEN RStrip(SubSeq(t, 1, Len(t) - 1)) ELSE t

Strip(t) == RStrip(LStrip(t))

clean_transcript_text(t) ==
    Strip(RemoveControl(CollapseSpaces(normalize_turkish_text(t))))


\* --------------------------------------------- transcript_service.py
\* one caption fragment, as the caption API returns it and json.dump writes it
Item(t) == [text |-> t, start |-> 0, duration |-> 0]

Texts(n) == UNION {[1..k -> Alphabet] : k \in 0..n}

\* payloads of at most f fragments holding at most n tokens together
RECURSIVE Payloads(_, _)
Payloads(f, n) ==
    IF f = 0 THEN {<<>>}
    ELSE {<<>>} \cup
         UNION {{<<Item(t)>> \o p : p \in Payloads(f - 1, n - Len(t))} : t \in Texts(n)}

CaptionPayloads == Payloads(MaxFrags, MaxCapLen)
WhisperTexts == Texts(MaxTextLen)

\* _format_transcript: the loop body, formatted_text += f"{text} "
RECURSIVE FormatLoop(_, _)
FormatLoop(data, formatted) ==
    IF data = <<>> THEN formatted
    ELSE LET text == clean_transcript_text(Strip(Head(data).text))
         IN  FormatLoop(Tail(data),
                        IF text # <<>> THEN formatted \o text \o <<"s">>
                        ELSE formatted)

FormatTranscript(data) == Strip(FormatLoop(data, <<>>))

\* the cache file of the source: absent, written whole, or left truncated by
\* a json.dump that raised after open(cache_file, "w") had created the file
NoFile == [state |-> "absent", data |-> <<>>]
CorruptFile == [state |-> "corrupt", data |-> <<>>]
GoodFile(p) == [state |-> "ok", data |-> p]

\* with open(cache_file, "w") as f: json.dump(data, f): w is what happened
WriteOutcomes == {"written", "open_failed", "dump_failed"}

\* a write that reports success and leaves the file as it was
WriteCache_Lost(c, p, w) == c

WriteCache(c, p, w) ==
    CASE w = "written" -> GoodFile(p)
      [] w = "open_failed" -> c
      [] OTHER -> CorruptFile

\* values of get_transcript and of the strategy functions
NoRet == [kind |-> "none", text |-> <<>>]
Null == [kind |-> "null", text |-> <<>>]
Raised == [kind |-> "raise", text |-> <<>>]
Str(t) == [kind |-> "str", text |-> t]

\* `if transcript:` -- None and "" are both falsy
Truthy(r) == r.kind = "str" /\ r.text # <<>>

Outcome(r) ==
    CASE r.kind = "str" /\ r.text # <<>> -> "text"
      [] r.kind = "str" -> "empty"
      [] r.kind = "raise" -> "raise"
      [] OTHER -> "none"

CaptionMethods == {"standard_caption", "translated_caption", "auto_caption"}
NonCachedMethods == CaptionMethods \cup {"audio_transcription"}

\* which except clause of get_transcript the standard caption call ends in
StandardOutcomes == {"ok", "disabled", "notfound", "error"}

\* the except clauses with the translation step left out of the first
NextAfterStandard_SkipTranslated(o) ==
    CASE o = "disabled" -> "auto"
      [] o = "notfound" -> "auto"
      [] OTHER -> "audio"

\* the two caption except clauses sharing one body
NextAfterStandard_SameFallback(o) ==
    CASE o = "disabled" -> "translated"
      [] o = "notfound" -> "translated"
      [] OTHER -> "audio"

NextAfterStandard(o) ==
    CASE o = "disabled" -> "translated"
      [] o = "notfound" -> "auto"
      [] OTHER -> "audio"

\* `return transcript` without the `if transcript:` before it
NextAfterAuto_NoFallback(r) == "done"

\* the state that follows a strategy of the except clauses that yielded r
NextAfterTranslated(r) == IF Truthy(r) THEN "done" ELSE "auto"
NextAfterAuto(r) == IF Truthy(r) THEN "done" ELSE "audio"

\* the audio path called bare in every except clause
AudioGuarded_Never(p) == FALSE

\* only the `except Exception` clause wraps the audio path in a try
AudioGuarded(p) == p = "other"

\* transcript_data = [{"text": text, "start": 0.0, "duration": 0.0}]
WhisperRecord(t) == <<Item(clean_transcript_text(t))>>

VARIABLES
    cache,       \* the transcript cache file of the source
    audioFile,   \* the audio cache file of the source: absent, empty, ok
    pc,          \* where get_transcript stands
    path,        \* how the standard caption call of this call ended
    tracks,      \* caption tracks _try_translated_transcripts has left
    attempts,    \* the strategies this call attempted, with their results
    ret,         \* what the call returned
    winner,      \* the strategy whose result the call returned
    winPayload,  \* the payload that strategy obtained
    prev,        \* the result and the winner of the call before
    storage,     \* config.storage_type
    opc,         \* where main stands
    run,         \* runs of main started
    idx,         \* the position of main's loop in the playlist
    milvus,      \* records in the vector sink, per source id
    excelRows,   \* rows of the Transcripts sheet, per source id
    insertCalls, \* insert_transcript_chunks calls, per source id
    processed_count,
    skipped_count,
    failed_videos,
    last,        \* the process_video call before: source, steps, result
    coll,        \* the Milvus collection: exists, indexed, loaded
    created,     \* collections created by _create_collection
    indexes,     \* indexes built by _create_collection
    ensured,     \* how the last _ensure_collection_exists call ended
    config_file, \* what load_config found at config_path
    embedding_dim, \* the width of the vectors of the embedding model
    playlist,    \* main's videos, by id
    run_mode,    \* the run: normal, or recovery (load_excel_to_milvus)
    ending,      \* how the run ended
    recovery,    \* the recovery-mode run: the sinks at its start, its calls
    rows_before, \* the rows of the Transcripts sheet when the run started
    ensure_failed \* how the last _ensure_collection_exists call that raised ended

rvars == <<cache, audioFile, pc, path, tracks, attempts, ret, winner,
           winPayload, prev>>

ovars == <<storage, opc, run, idx, milvus, excelRows, insertCalls,
           processed_count, skipped_count, failed_videos, last,
           coll, created, indexes, ensured, config_file, embedding_dim,
           playlist, run_mode, ending, recovery, rows_before, ensure_failed>>

VARIABLES
    full_transcript,  \* get_chunked_transcript: what get_transcript gave
    chunk_size,       \* get_chunked_transcript: its chunk_size argument
    overlap,          \* get_chunked_transcript: its overlap argument
    chunk_result,     \* get_chunked_transcript: its result
    texts,            \* generate_embeddings: its argument
    batch_size,       \* EmbeddingService.batch_size
    failing_batch,    \* the batch whose model.encode raises (0: none)
    embeddings,       \* generate_embeddings: its result
    collection,       \* insert_transcript_chunks: the records of the collection
    collection_before,\* the records before the call
    video_data,       \* insert_transcript_chunks: the id of its video_data
    transcript_chunks,\* insert_transcript_chunks: its chunks argument
    chunk_embeddings, \* insert_transcript_chunks: its embeddings argument
    insert_result,    \* insert_transcript_chunks: how the call ended
    workbook,         \* ExcelService: the Excel file at excel_path
    workbook_before,  \* the file before the ExcelService call
    excel_call,       \* the ExcelService call before: method, argument, result
    service,          \* the vector sink class under construction
    conn,             \* its connection: idle, connecting, connected, unreachable
    auth,             \* MilvusService.__init__: how the client authenticates
    retry_count,      \* WeaviateService.connect: retry_count
    attempt_log,      \* how the connection attempts of the call ended
    slept             \* the waits of the call, in seconds

VARIABLES
    file,             \* the Excel file two concurrent writers share
    writers,          \* each writer's append_transcripts call
    replay,           \* load_excel_to_milvus: its inputs and what it did
    playlist_cache,   \* YouTubeService: the playlist_<id>.json files
    catalogue_call    \* the get_playlist_videos call before

cvars == <<full_transcript, chunk_size, overlap, chunk_result>>

evars == <<texts, batch_size, failing_batch, embeddings>>

ivars == <<collection, collection_before, video_data, transcript_chunks,
           chunk_embeddings, insert_result>>

xvars == <<workbook, workbook_before, excel_call>>

nvars == <<service, conn, auth, retry_count, attempt_log, slept>>

\* the services called outside the pipeline
wvars == <<file, writers>>

lvars == <<replay>>

yvars == <<playlist_cache, catalogue_call>>

zvars == <<nvars, wvars, lvars, yvars>>

\* the stages called one at a time
pvars == <<cvars, evars, ivars, xvars, zvars>>

vars == <<rvars, ovars, pvars>>

Attempt(s, r) == [s |-> s, r |-> Outcome(r)]

RInit ==
    /\ cache = NoFile
    /\ audioFile = "absent"
    /\ pc = "idle"
    /\ path = "none"
    /\ tracks = 0
    /\ attempts = <<>>
    /\ ret = NoRet
    /\ winner = "none"
    /\ winPayload = <<>>
    /\ prev = [ret |-> NoRet, winner |-> "none"]

\* get_transcript returns r, obtained by strategy s from payload p
Return(s, r, p) ==
    /\ pc' = "done"
    /\ ret' = r
    /\ winner' = IF r.kind = "str" THEN s ELSE "none"
    /\ winPayload' = IF r.kind = "str" THEN p ELSE <<>>
    /\ attempts' = Append(attempts, Attempt(s, r))

\* a strategy yielded r and get_transcript goes on to the state next
FallTo(s, r, next) ==
    /\ pc' = next
    /\ attempts' = Append(attempts, Attempt(s, r))
    /\ UNCHANGED <<ret, winner, winPayload>>

\* get_transcript, lines 57-65: the call starts; an existing cache file is
\* loaded and formatted outside any try
GetTranscript ==
    /\ pc \in {"idle", "done"}
    /\ UNCHANGED <<ovars, pvars>>
    /\ prev' = [ret |-> ret, winner |-> winner]
    /\ tracks' = 0
    /\ UNCHANGED <<cache, audioFile>>
    /\ IF cache.state # "absent"
       THEN /\ path' = "cached"
            /\ pc' = "done"
            /\ \E readOk \in BOOLEAN :
                 LET r == IF cache.state = "ok" /\ readOk
                          THEN Str(FormatTranscript(cache.data)) ELSE Raised
                 IN  /\ ret' = r
                     /\ winner' = IF r.kind = "str" THEN "cached" ELSE "none"
                     /\ winPayload' = IF r.kind = "str" THEN cache.data ELSE <<>>
                     /\ attempts' = <<Attempt("cached", r)>>
       ELSE /\ path' = "none"
            /\ pc' = "std"
            /\ ret' = NoRet
            /\ winner' = "none"
            /\ winPayload' = <<>>
            /\ attempts' = <<>>

\* get_transcript, lines 67-77, 93, 103: the standard caption call, the cache
\* write and the format; TranscriptsDisabled and NoTranscriptFound select the
\* caption fallbacks, any other exception (a failed cache write too) the audio path
StandardCaption ==
    /\ pc = "std"
    /\ UNCHANGED <<ovars, pvars>>
    /\ UNCHANGED <<audioFile, tracks, prev>>
    /\ \E o \in StandardOutcomes :
         IF o = "ok"
         THEN \E w \in WriteOutcomes :
                IF w = "written"
                THEN \E p \in CaptionPayloads :
                       /\ cache' = WriteCache(cache, p, w)
                       /\ path' = "ok"
                       /\ Return("standard_caption", Str(FormatTranscript(p)), p)
                ELSE /\ cache' = WriteCache(cache, <<>>, w)
                     /\ path' = "other"
                     /\ FallTo("standard_caption", Raised, NextAfterStandard("error"))
         ELSE /\ path' = IF o = "error" THEN "other" ELSE o
              /\ FallTo("standard_caption", Raised, NextAfterStandard(o))
              /\ UNCHANGED cache

\* _try_translated_transcripts returned r: get_transcript, lines 80-82
AfterTranslated(r, p) ==
    IF NextAfterTranslated(r) = "done"
    THEN Return("translated_caption", r, p)
    ELSE FallTo("translated_caption", r, NextAfterTranslated(r))

\* _try_translated_transcripts, lines 121-126, 142-146: the track listing
ListTranscripts ==
    /\ pc = "translated"
    /\ UNCHANGED <<ovars, pvars>>
    /\ UNCHANGED <<cache, audioFile, path, prev>>
    /\ \E n \in -1..MaxTracks :
         IF n <= 0
         THEN \* the listing raised (-1) or lists no track: return None
              /\ AfterTranslated(Null, <<>>)
              /\ UNCHANGED tracks
         ELSE /\ tracks' = n
              /\ pc' = "track"
              /\ UNCHANGED <<attempts, ret, winner, winPayload>>

\* _try_translated_transcripts, lines 126-140: one track of the loop
TranslateTrack ==
    /\ pc = "track"
    /\ UNCHANGED <<ovars, pvars>>
    /\ UNCHANGED <<audioFile, path, prev>>
    /\ tracks' = tracks - 1
    /\ \E ok \in BOOLEAN :
         IF ok
         THEN \E w \in WriteOutcomes :
                IF w = "written"
                THEN \E p \in CaptionPayloads :
                       /\ cache' = WriteCache(cache, p, w)
                       /\ AfterTranslated(Str(FormatTranscript(p)), p)
                ELSE /\ cache' = WriteCache(cache, <<>>, w)
                     /\ IF tracks = 1
                        THEN AfterTranslated(Null, <<>>)
                        ELSE UNCHANGED <<pc, attempts, ret, winner, winPayload>>
         ELSE /\ UNCHANGED cache
              /\ IF tracks = 1
                 THEN AfterTranslated(Null, <<>>)
                 ELSE UNCHANGED <<pc, attempts, ret, winner, winPayload>>

\* _try_auto_transcript returned r: get_transcript, lines 85-87 and 95-97
AfterAuto(r, p) ==
    IF NextAfterAuto(r) = "done"
    THEN Return("auto_caption", r, p)
    ELSE FallTo("auto_caption", r, NextAfterAuto(r))

\* _try_auto_transcript, lines 148-162
TryAutoTranscript ==
    /\ pc = "auto"
    /\ UNCHANGED <<ovars, pvars>>
    /\ UNCHANGED <<audioFile, path, tracks, prev>>
    /\ \E ok \in BOOLEAN :
         IF ok
         THEN \E w \in WriteOutcomes :
                IF w = "written"
                THEN \E p \in CaptionPayloads :
                       /\ cache' = WriteCache(cache, p, w)
                       /\ AfterAuto(Str(FormatTranscript(p)), p)
                ELSE /\ cache' = WriteCache(cache, <<>>, w)
                     /\ AfterAuto(Null, <<>>)
         ELSE /\ UNCHANGED cache
              /\ AfterAuto(Null, <<>>)

\* _extract_and_transcribe_audio ended with r: get_transcript, lines 91, 101
\* (the exception propagates) and 107-112 (it is caught and None returned)
AudioEnds(r, p) ==
    /\ pc' = "done"
    /\ ret' = IF r.kind = "raise" /\ AudioGuarded(path) THEN Null ELSE r
    /\ winner' = IF r.kind = "str" THEN "audio_transcription" ELSE "none"
    /\ winPayload' = IF r.kind = "str" THEN p ELSE <<>>
    /\ attempts' = Append(attempts, Attempt("audio_transcription", r))

AudioOutcomes ==
    {"mkdir_raises", "download_failed", "file_missing", "getsize_raises", "proceed"}

\* _extract_and_transcribe_audio, lines 164-185, over download_audio
\* (youtube_service.py, lines 142-219)
ExtractAudio ==
    /\ pc = "audio"
    /\ UNCHANGED <<ovars, pvars>>
    /\ UNCHANGED <<cache, path, tracks, prev>>
    /\ \E o \in AudioOutcomes :
         CASE o = "mkdir_raises" ->
                \* download_dir.mkdir is outside download_audio's try
                /\ AudioEnds(Raised, <<>>)
                /\ UNCHANGED audioFile
           [] o = "download_failed" ->
                \* no cached audio, and the download raised or left no file
                /\ audioFile = "absent"
                /\ AudioEnds(Null, <<>>)
                /\ UNCHANGED audioFile
           [] o = "file_missing" ->
                \* the file is gone when os.path.exists looks
                /\ audioFile' = "absent"
                /\ AudioEnds(Null, <<>>)
           [] o = "getsize_raises" ->
                \* the file is gone when os.path.getsize looks
                /\ audioFile' = "absent"
                /\ AudioEnds(Raised, <<>>)
           [] OTHER ->
                \E f \in IF audioFile = "absent" THEN {"ok", "empty"} ELSE {audioFile} :
                  /\ audioFile' = f
                  /\ IF f = "empty"
                     THEN AudioEnds(Null, <<>>)
                     ELSE /\ pc' = "whisper"
                          /\ UNCHANGED <<attempts, ret, winner, winPayload>>

\* _transcribe_with_whisper, lines 190-252
TranscribeWithWhisper ==
    /\ pc = "whisper"
    /\ UNCHANGED <<ovars, pvars>>
    /\ UNCHANGED <<audioFile, path, tracks, prev>>
    /\ \E ok \in BOOLEAN :
         IF ok
         THEN \E w \in WriteOutcomes \cup {"no_text"} :
                CASE w = "no_text" ->
                       \* result.get("text", "") is empty
                       /\ AudioEnds(Null, <<>>)
                       /\ UNCHANGED cache
                  [] w = "written" ->
                       \E t \in WhisperTexts \ {<<>>} :
                         /\ cache' = WriteCache(cache, WhisperRecord(t), w)
                         /\ AudioEnds(Str(Strip(clean_transcript_text(t))),
                                      WhisperRecord(t))
                  [] OTHER ->
                       /\ cache' = WriteCache(cache, <<>>, w)
                       /\ AudioEnds(Null, <<>>)
         ELSE \* the file is missing, whisper is not installed, or it raised
              /\ AudioEnds(Null, <<>>)
              /\ UNCHANGED cache

\* the transcript resolver alone
Next ==
    \/ GetTranscript
    \/ StandardCaption
    \/ ListTranscripts
    \/ TranslateTrack
    \/ TryAutoTranscript
    \/ ExtractAudio
    \/ TranscribeWithWhisper

\* the playlist main iterates: the same sources in every run
Videos == <<"abc123", "xyz789">>
VideoIds == {Videos[j] : j \in 1..Len(Videos)}

\* --------------------- transcript_service.py: get_chunked_transcript
\* the defaults of get_chunked_transcript and of Config
default_chunk_size == 1000
default_overlap == 100

\* the transcripts handed to the chunker: cleaned text, characters k and ı
DocAlphabet == {"a", "i"}
DocTexts == UNION {[1..k -> DocAlphabet] : k \in 0..MaxDocLen}

\* what self.get_transcript(video_id) gives get_chunked_transcript
TranscriptResults == {Null, Raised} \cup {Str(t) : t \in DocTexts}

\* range(start, stop, step) for a step that is not 0
RECURSIVE Range(_, _, _)
Range(start, stop, step) ==
    IF (step > 0 /\ start < stop) \/ (step < 0 /\ start > stop)
    THEN <<start>> \o Range(start + step, stop, step)
    ELSE <<>>

\* a slice that stops one character early
Slice_Exclusive(text, i, j) ==
    SubSeq(text, i + 1, IF j - 1 < Len(text) THEN j - 1 ELSE Len(text))

\* text[i:j] for 0 <= i
Slice(text, i, j) ==
    SubSeq(text, i + 1, IF j < Len(text) THEN j ELSE Len(text))

\* a window step that ignores the overlap
Step_NoOverlap(size, o) == size

\* chunk_size - overlap, the step of the range
Step(size, o) == size - o

\* the loop of get_chunked_transcript over the offsets offs
RECURSIVE ChunkLoop(_, _, _, _)
ChunkLoop(text, offs, size, chunks) ==
    IF offs = <<>> THEN chunks
    ELSE LET chunk == Slice(text, Head(offs), Head(offs) + size)
         IN  ChunkLoop(text, Tail(offs), size,
                       IF chunk # <<>> THEN Append(chunks, chunk) ELSE chunks)

\* results of get_chunked_transcript
NotChunked == [kind |-> "none", chunks |-> <<>>]
ChunkList(c) == [kind |-> "list", chunks |-> c]
ChunkRaised == [kind |-> "raise", chunks |-> <<>>]

\* get_chunked_transcript: r is what get_transcript gave; range() raises
\* ValueError for a step of 0 and is empty for a negative step
get_chunked_transcript(r, size, o) ==
    IF r.kind = "raise" THEN ChunkRaised
    ELSE IF ~Truthy(r) THEN ChunkList(<<>>)
    ELSE IF Step(size, o) = 0 THEN ChunkRaised
    ELSE ChunkList(ChunkLoop(r.text, Range(0, Len(r.text), Step(size, o)),
                             size, <<>>))

\* process_video, lines 62-70: the rows built from the chunks
TranscriptData(video_id, chunks) ==
    [j \in 1..Len(chunks) |->
        [video_id |-> video_id, chunk_index |-> j - 1,
         transcript_chunk |-> chunks[j]]]

CInit ==
    /\ full_transcript = NoRet
    /\ chunk_size = default_chunk_size
    /\ overlap = default_overlap
    /\ chunk_result = NotChunked

\* one call of get_chunked_transcript
GetChunkedTranscript ==
    /\ \E r \in TranscriptResults, size \in 1..MaxChunkSize, o \in 0..MaxOverlap :
         /\ full_transcript' = r
         /\ chunk_size' = size
         /\ overlap' = o
         /\ chunk_result' = get_chunked_transcript(r, size, o)
    /\ UNCHANGED <<rvars, ovars, evars, ivars, xvars, zvars>>

\* --------------------------- embedding_service.py: generate_embeddings
ChunkTexts == {<<"a">>, <<"i">>, <<"a", "i">>}
ChunkLists == UNION {[1..k -> ChunkTexts] : k \in 0..MaxChunks}

\* the vector model.encode computes for one text: a numpy array
Embed(text) == [kind |-> "ndarray", of |-> text]

\* model.encode(batch_texts): one vector per text, in order
Encode(batch) == [k \in 1..Len(batch) |-> Embed(batch[k])]

\* a batch that misses its last text
BatchOf_Short(ts, i, b) == Slice(ts, i, i + b - 1)

\* texts[i:i + self.batch_size]
BatchOf(ts, i, b) == Slice(ts, i, i + b)

\* an except clause that returns what the batches before gave
OnEncodeError_Partial(embs) == embs

\* except Exception: return []
OnEncodeError(embs) == <<>>

\* batches of a call: len(range(0, len(texts), batch_size))
NumBatches(ts, b) == (Len(ts) + b - 1) \div b

\* the loop of generate_embeddings from offset i; batch number fail raises
RECURSIVE EmbedLoop(_, _, _, _, _)
EmbedLoop(ts, b, i, fail, embs) ==
    IF i >= Len(ts) THEN embs
    ELSE IF fail = (i \div b) + 1 THEN OnEncodeError(embs)
    ELSE EmbedLoop(ts, b, i + b, fail, embs \o Encode(BatchOf(ts, i, b)))

generate_embeddings(ts, b, fail) ==
    IF ts = <<>> THEN <<>> ELSE EmbedLoop(ts, b, 0, fail, <<>>)

EInit ==
    /\ texts = <<>>
    /\ batch_size = 1
    /\ failing_batch = 0
    /\ embeddings = <<>>

\* one call of generate_embeddings
GenerateEmbeddings ==
    /\ \E ts \in ChunkLists, b \in 1..MaxBatch, fail \in 0..MaxChunks :
         /\ texts' = ts
         /\ batch_size' = b
         /\ failing_batch' = fail
         /\ embeddings' = generate_embeddings(ts, b, fail)
    /\ UNCHANGED <<rvars, ovars, cvars, ivars, xvars, zvars>>

\* ------------------------- milvus_service.py: insert_transcript_chunks
\* an embedding that is no list and has no tolist
BadEmbedding == [kind |-> "scalar", of |-> <<>>]

\* embedding.tolist()
ToList(e) == [kind |-> "list", of |-> e.of]

\* f"{video_id}_{i}"
RecordId(video_id, i) == video_id \o "_" \o ToString(i)

\* the record of chunk i (title and url left out)
Record(video_id, i, chunk, embedding) ==
    [id |-> RecordId(video_id, i),
     video_id |-> video_id,
     chunk_index |-> i,
     transcript_chunk |-> chunk,
     transcript_vector |-> IF embedding.kind = "list" THEN embedding
                           ELSE ToList(embedding)]

\* no length check before the records are built
LengthsMatch_Unchecked(chunks, embs) == TRUE

\* len(transcript_chunks) != len(embeddings) raises ValueError
LengthsMatch(chunks, embs) == Len(chunks) = Len(embs)

Min(a, b) == IF a < b THEN a ELSE b

\* for i, (chunk, embedding) in enumerate(zip(...)): records.append(...)
RECURSIVE BuildRecords(_, _, _, _, _)
BuildRecords(video_id, chunks, embs, i, records) ==
    IF i >= Min(Len(chunks), Len(embs)) THEN [kind |-> "ok", records |-> records]
    ELSE IF embs[i + 1].kind \notin {"list", "ndarray"}
         THEN [kind |-> "raise", records |-> records]
    ELSE BuildRecords(video_id, chunks, embs, i + 1,
                      Append(records,
                             Record(video_id, i, chunks[i + 1], embs[i + 1])))

\* insert_transcript_chunks on the records stored; ok says whether the one
\* client insert of the call succeeds
insert_transcript_chunks(stored, video_id, chunks, embs, ok) ==
    IF ~LengthsMatch(chunks, embs) THEN [kind |-> "raise", collection |-> stored]
    ELSE LET built == BuildRecords(video_id, chunks, embs, 0, <<>>)
         IN  IF built.kind = "raise" THEN [kind |-> "raise", collection |-> stored]
             ELSE IF built.records = <<>> THEN [kind |-> "ok", collection |-> stored]
             ELSE IF ok THEN [kind |-> "ok", collection |-> stored \o built.records]
             ELSE [kind |-> "raise", collection |-> stored]

\* the chunk lists and embedding lists insert_transcript_chunks is called with
InsertChunkLists == {<<>>, <<<<"a">>>>, <<<<"a">>, <<"i">>>>}
InsertEmbeddingLists ==
    {<<>>,
     <<Embed(<<"a">>)>>,
     <<ToList(Embed(<<"a">>))>>,
     <<BadEmbedding>>,
     <<Embed(<<"a">>), Embed(<<"i">>)>>,
     <<Embed(<<"a">>), ToList(Embed(<<"i">>))>>,
     <<Embed(<<"a">>), BadEmbedding>>}

IInit ==
    /\ collection = <<>>
    /\ collection_before = <<>>
    /\ video_data = ""
    /\ transcript_chunks = <<>>
    /\ chunk_embeddings = <<>>
    /\ insert_result = "none"

\* one call of insert_transcript_chunks
InsertTranscriptChunks ==
    /\ Len(collection) <= MaxStored
    /\ \E v \in VideoIds, chunks \in InsertChunkLists,
          embs \in InsertEmbeddingLists, ok \in BOOLEAN :
         LET r == insert_transcript_chunks(collection, v, chunks, embs, ok)
         IN  /\ video_data' = v
             /\ transcript_chunks' = chunks
             /\ chunk_embeddings' = embs
             /\ collection_before' = collection
             /\ collection' = r.collection
             /\ insert_result' = r.kind
    /\ UNCHANGED <<rvars, ovars, cvars, evars, xvars, zvars>>

\* ------------------------------------------------------- excel_service.py
\* the missing value of a DataFrame
NaN == "NaN"

\* texts pd.read_excel takes for a missing value
NAStrings == {"", "NA"}

\* the titles of the sources: a plain one, none, one that reads as missing
Titles == {"T", "", "NA"}

\* process_video, lines 62-70: the rows handed to append_transcripts (the
\* url left out)
TranscriptRows(video_id, title, chunks) ==
    [j \in 1..Len(chunks) |->
        [video_id |-> video_id, video_title |-> title, chunk_index |-> j - 1,
         transcript_chunk |-> chunks[j]]]

\* the row lists the ExcelService methods are called with
RowLists ==
    {TranscriptRows(v, t, c) :
        v \in VideoIds, t \in Titles, c \in InsertChunkLists \ {<<>>}}

\* the video metadata main hands to save_transcripts
VideoLists == {<<>>, [j \in 1..Len(Videos) |-> [id |-> Videos[j], title |-> "T"]]}

\* DataFrame.to_excel: a missing value leaves its cell empty
ToCell(v) == IF v = NaN THEN "" ELSE v

\* pd.read_excel: an empty cell and an NA text read as the missing value
FromCell(c) == IF c \in NAStrings THEN NaN ELSE c

\* df.to_excel(writer, sheet_name='Transcripts', index=False): the cells
ToExcel(df) == [j \in 1..Len(df) |-> [df[j] EXCEPT !.video_title = ToCell(@)]]

\* pd.read_excel(path, sheet_name='Transcripts')
ReadExcel(sheet) ==
    [j \in 1..Len(sheet) |-> [sheet[j] EXCEPT !.video_title = FromCell(@)]]

\* the Excel file: absent, unreadable, or a workbook with its Videos sheet
\* and, when it has one, its Transcripts sheet
NoWorkbook ==
    [exists |-> FALSE, readable |-> FALSE, Videos |-> <<>>,
     hasTranscripts |-> FALSE, Transcripts |-> <<>>]
Damaged == [NoWorkbook EXCEPT !.exists = TRUE]
EmptyBook == [NoWorkbook EXCEPT !.exists = TRUE, !.readable = TRUE]

\* how an ExcelService call ended and the file it left
ExcelResult(kind, book) == [kind |-> kind, book |-> book]

\* the faults of the file system and of the library during a call
Faults == {"none", "read", "write"}

\* a writer that starts from an empty workbook whatever its mode
ExcelWriter_Truncate(book, mode) == EmptyBook

\* pd.ExcelWriter(path, engine='openpyxl'[, mode='a']): mode a loads the
\* workbook of the file, the default mode starts an empty one
ExcelWriter(book, mode) == IF mode = "a" THEN book ELSE EmptyBook

\* a sheet test that never writes the Transcripts sheet
HasRows_Never(transcripts) == FALSE

\* transcripts and len(transcripts) > 0
HasRows(transcripts) == transcripts # <<>>

\* save_transcripts: the file is created anew with the Videos sheet and,
\* for a non-empty row list, the Transcripts sheet; an error is raised again
save_transcripts(book, videos, transcripts, fault) ==
    IF fault = "write" THEN ExcelResult("raise", Damaged)
    ELSE LET writer == ExcelWriter(book, "w")
             withVideos == [writer EXCEPT !.Videos = videos]
         IN  ExcelResult("ok",
                 IF HasRows(transcripts)
                 THEN [withVideos EXCEPT !.hasTranscripts = TRUE,
                                         !.Transcripts = ToExcel(transcripts)]
                 ELSE withVideos)

\* a merge that keeps of the existing rows only those of other sources
Concat_Overwrite(existing, new) ==
    SelectSeq(existing,
              LAMBDA r : \A j \in 1..Len(new) : new[j].video_id # r.video_id)
        \o new

\* pd.concat([existing_df, transcript_df], ignore_index=True)
Concat(existing, new) == existing \o new

\* append_transcripts: nothing for an empty list, save_transcripts([], rows)
\* when the file does not exist, else the Transcripts sheet is replaced by
\* the merged table or created; an error is raised again
append_transcripts(book, rows, fault) ==
    IF rows = <<>> THEN ExcelResult("ok", book)
    ELSE IF ~book.exists THEN save_transcripts(book, <<>>, rows, fault)
    ELSE IF ~book.readable \/ fault = "read" THEN ExcelResult("raise", book)
    ELSE IF fault = "write" THEN ExcelResult("raise", Damaged)
    ELSE LET writer == ExcelWriter(book, "a")
             df == IF book.hasTranscripts
                   THEN Concat(ReadExcel(book.Transcripts), rows)
                   ELSE rows
         IN  ExcelResult("ok", [writer EXCEPT !.hasTranscripts = TRUE,
                                              !.Transcripts = ToExcel(df)])

\* the result {} of load_transcripts
NoSheets == [kind |-> "empty", Videos |-> <<>>, Transcripts |-> <<>>]

\* a read of the file that never fails
LoadFails_Never(book, fault) == FALSE

\* pd.read_excel(excel_path, sheet_name=None) raises
LoadFails(book, fault) == ~book.readable \/ fault # "none"

\* load_transcripts: {} when the file is absent, when reading it fails and
\* when it has no Transcripts sheet, else every sheet of the file
load_transcripts(book, fault) ==
    IF ~book.exists THEN NoSheets
    ELSE IF LoadFails(book, fault) THEN NoSheets
    ELSE IF ~book.hasTranscripts THEN NoSheets
    ELSE [kind |-> "sheets", Videos |-> book.Videos,
          Transcripts |-> ReadExcel(book.Transcripts)]

\* an ExcelService call: method, row list, fault, how it ended, what it gave
ExcelCall(method, rows, fault, kind, sheets) ==
    [method |-> method, rows |-> rows, fault |-> fault, kind |-> kind,
     sheets |-> sheets]

XInit ==
    /\ workbook = NoWorkbook
    /\ workbook_before = NoWorkbook
    /\ excel_call = ExcelCall("none", <<>>, "none", "none", NoSheets)

\* one call of save_transcripts
SaveTranscripts ==
    /\ \E videos \in VideoLists, rows \in RowLists \cup {<<>>},
          fault \in {"none", "write"} :
         LET r == save_transcripts(workbook, videos, rows, fault)
         IN  /\ workbook' = r.book
             /\ excel_call' = ExcelCall("save_transcripts", rows, fault,
                                        r.kind, NoSheets)
    /\ workbook_before' = workbook
    /\ UNCHANGED <<rvars, ovars, cvars, evars, ivars, zvars>>

\* one call of append_transcripts
AppendTranscripts ==
    /\ Len(workbook.Transcripts) < MaxRows
    /\ \E rows \in RowLists \cup {<<>>}, fault \in Faults :
         LET r == append_transcripts(workbook, rows, fault)
         IN  /\ workbook' = r.book
             /\ excel_call' = ExcelCall("append_transcripts", rows, fault,
                                        r.kind, NoSheets)
    /\ workbook_before' = workbook
    /\ UNCHANGED <<rvars, ovars, cvars, evars, ivars, zvars>>

\* one call of load_transcripts
LoadTranscripts ==
    /\ \E fault \in {"none", "read"} :
         excel_call' = ExcelCall("load_transcripts", <<>>, fault, "ok",
                                 load_transcripts(workbook, fault))
    /\ workbook_before' = workbook
    /\ UNCHANGED workbook
    /\ UNCHANGED <<rvars, ovars, cvars, evars, ivars, zvars>>

\* ------------------- excel_service.py: two append_transcripts calls at once
Writers == {1, 2}

\* a call of append_transcripts: where it stands, its rows, the branch it
\* took, the table it read, the file it read, the file before and after its
\* write, how it ended
Writer(at, rows, branch, existing, seen, before, after, kind) ==
    [pc |-> at, rows |-> rows, branch |-> branch, existing |-> existing,
     seen |-> seen, before |-> before, after |-> after, kind |-> kind]

\* the rows of a writer: those of the source it processes
WriterRows(p) ==
    {TranscriptRows(Videos[p], t, c) :
        t \in {"T", "NA"}, c \in InsertChunkLists \ {<<>>}}

IdleWriter ==
    Writer("idle", <<>>, "none", <<>>, NoWorkbook, NoWorkbook, NoWorkbook,
           "none")

\* lines 79 and 89-92: no file, a file with the sheet, a file without it
AppendBranch(book) ==
    IF ~book.exists THEN "create"
    ELSE IF book.hasTranscripts THEN "replace"
    ELSE "new_sheet"

\* a writer with if_sheet_exists='overlay': the cells below the written
\* table keep what they held
ReplaceSheet_Overlay(book, df) ==
    [ExcelWriter(book, "a") EXCEPT
        !.hasTranscripts = TRUE,
        !.Transcripts = ToExcel(df)
                          \o SubSeq(book.Transcripts, Len(df) + 1,
                                    Len(book.Transcripts))]

\* lines 109-111: mode 'a' with if_sheet_exists='replace' loads the workbook
\* of the file and replaces its Transcripts sheet by the table
ReplaceSheet(book, df) ==
    [ExcelWriter(book, "a") EXCEPT !.hasTranscripts = TRUE,
                                   !.Transcripts = ToExcel(df)]

\* lines 114-115: mode 'a' with the default if_sheet_exists='error' raises
\* when the workbook of the file has the sheet by now
AddSheet(book, df) ==
    IF book.hasTranscripts THEN ExcelResult("raise", book)
    ELSE ExcelResult("ok", ReplaceSheet(book, df))

WInit ==
    /\ file = NoWorkbook
    /\ writers = [p \in Writers |-> IdleWriter]

\* main, lines 192-195: save_transcripts(videos, []) creates the file
CreateWorkbook ==
    /\ ~file.exists
    /\ file' = save_transcripts(file, [j \in 1..Len(Videos) |-> [id |-> Videos[j], title |-> "T"]], <<>>, "none").book
    /\ UNCHANGED writers
    /\ UNCHANGED <<rvars, ovars, cvars, evars, ivars, xvars, nvars,
                   lvars, yvars>>

\* append_transcripts up to line 105: the file is looked at and, when it has
\* the sheet, the table is read and merged with the rows
AppendRead(p) ==
    /\ writers[p].pc \in {"idle", "done"}
    /\ Len(file.Transcripts) < MaxShared
    /\ \E rows \in WriterRows(p) :
         writers' = [writers EXCEPT ![p] =
            Writer("read", rows, AppendBranch(file),
                   IF AppendBranch(file) = "replace"
                   THEN ReadExcel(file.Transcripts) ELSE <<>>,
                   file, NoWorkbook, NoWorkbook, "none")]
    /\ UNCHANGED file
    /\ UNCHANGED <<rvars, ovars, cvars, evars, ivars, xvars, nvars,
                   lvars, yvars>>

\* append_transcripts from its writer on: lines 81, 109-111 or 114-115
AppendWrite(p) ==
    /\ writers[p].pc = "read"
    /\ LET w == writers[p]
           r == CASE w.branch = "create" ->
                       save_transcripts(file, <<>>, w.rows, "none")
                  [] w.branch = "replace" ->
                       ExcelResult("ok",
                           ReplaceSheet(file, Concat(w.existing, w.rows)))
                  [] OTHER -> AddSheet(file, w.rows)
       IN  /\ file' = r.book
           /\ writers' = [writers EXCEPT ![p] =
                  [w EXCEPT !.pc = "done", !.before = file,
                            !.after = r.book, !.kind = r.kind]]
    /\ UNCHANGED <<rvars, ovars, cvars, evars, ivars, xvars, nvars,
                   lvars, yvars>>

\* ------------------------------- weaviate_service.py, milvus_service.py
\* max_retries of WeaviateService.connect
max_retries == 5

\* how one connection attempt ends: the client is ready, it is not, or the
\* constructor raises
AttemptOutcomes == {"ready", "not_ready", "raises"}

\* wait_time = 2 ** retry_count
WaitTime(n) == 2 ^ n

\* the client of MilvusService: user and password, token, or neither
AuthMethods == {"password", "token", "none"}

NInit ==
    /\ service = "none"
    /\ auth = "none"
    /\ conn = "idle"
    /\ retry_count = 0
    /\ attempt_log = <<>>
    /\ slept = <<>>

\* WeaviateService.__init__ calls connect, lines 18-22
WeaviateConnect ==
    /\ conn \in {"idle", "connected", "unreachable"}
    /\ service' = "weaviate"
    /\ auth' = "none"
    /\ conn' = "connecting"
    /\ retry_count' = 0
    /\ attempt_log' = <<>>
    /\ slept' = <<>>
    /\ UNCHANGED <<rvars, ovars, cvars, evars, ivars, xvars, wvars,
                   lvars, yvars>>

\* one turn of the while loop of connect, lines 23-38, and, when the loop
\* ends after it, the ConnectionError of line 40
WeaviateAttempt ==
    /\ service = "weaviate" /\ conn = "connecting"
    /\ retry_count < max_retries
    /\ \E o \in AttemptOutcomes :
         /\ attempt_log' = Append(attempt_log, o)
         /\ IF o = "ready"
            THEN /\ conn' = "connected"
                 /\ UNCHANGED <<retry_count, slept>>
            ELSE /\ retry_count' = retry_count + 1
                 /\ slept' = Append(slept, WaitTime(retry_count + 1))
                 /\ conn' = IF retry_count + 1 < max_retries THEN "connecting"
                            ELSE "unreachable"
    /\ UNCHANGED <<service, auth>>
    /\ UNCHANGED <<rvars, ovars, cvars, evars, ivars, xvars, wvars,
                   lvars, yvars>>

\* MilvusService.__init__, lines 59-78: the client is constructed and
\* _ensure_collection_exists lists the collections once; an error of the
\* constructor (raises) or of the listing (list_fails) is raised to main
MilvusConnect ==
    /\ conn \in {"idle", "connected", "unreachable"}
    /\ service' = "milvus"
    /\ retry_count' = 0
    /\ slept' = <<>>
    /\ \E a \in AuthMethods, o \in {"ready", "raises", "list_fails"} :
         /\ auth' = a
         /\ attempt_log' = <<o>>
         /\ conn' = IF o = "ready" THEN "connected" ELSE "unreachable"
    /\ UNCHANGED <<rvars, ovars, cvars, evars, ivars, xvars, wvars,
                   lvars, yvars>>

\* ------------------------------------------------- main.py, milvus_service.py
\* what get_chunked_transcript gives process_video: it raised (-1), no chunk
\* (no transcript), or a list of two chunks
ChunkOutcomes == {-1, 0, 2}

\* a sink test that holds whatever the storage type
VectorActive_Always(st) == TRUE

\* config.storage_type in [StorageType.VECTOR_DB, StorageType.BOTH]
VectorActive(st) == st \in {"vector_db", "both"}
\* a sink test that holds whatever the storage type
ExcelActive_Always(st) == TRUE

\* config.storage_type in [StorageType.EXCEL, StorageType.BOTH]
ExcelActive(st) == st \in {"excel", "both"}

\* the client calls of _ensure_collection_exists: all succeed, or one fails
EnsureOutcomes == {"ok", "list_fails", "create_fails", "index_fails", "load_fails"}

NoCollection == [exists |-> FALSE, indexed |-> FALSE, loaded |-> FALSE]

\* how an _ensure_collection_exists call ended and what it left
Ensured(result, c, n, m) ==
    [result |-> result, coll |-> c, created |-> n, indexes |-> m]

\* _create_collection: create_collection, create_index, load_collection; the
\* server refuses to create a collection that exists
CreateCollection(c, o) ==
    IF c.exists THEN Ensured("already_exists", c, 0, 0)
    ELSE IF o = "create_fails" THEN Ensured("create_failed", c, 0, 0)
    ELSE IF o = "index_fails"
         THEN Ensured("index_failed", [c EXCEPT !.exists = TRUE], 1, 0)
    ELSE IF o = "load_fails"
         THEN Ensured("load_failed",
                      [exists |-> TRUE, indexed |-> TRUE, loaded |-> FALSE], 1, 1)
    ELSE Ensured("created",
                 [exists |-> TRUE, indexed |-> TRUE, loaded |-> TRUE], 1, 1)

\* a listing that never shows the collection
CollectionListed_Never(c) == FALSE

\* self._collection_name in collections
CollectionListed(c) == c.exists

\* a load that needs no index
CanLoad_Always(c) == TRUE

\* load_collection: the server refuses to load a collection without index
CanLoad(c) == c.indexed

\* _ensure_collection_exists; a collection without an index cannot be loaded
EnsureCollectionExists(c, o) ==
    IF o = "list_fails" THEN Ensured("list_failed", c, 0, 0)
    ELSE IF ~CollectionListed(c) THEN CreateCollection(c, o)
    ELSE IF o = "load_fails" \/ ~CanLoad(c) THEN Ensured("load_failed", c, 0, 0)
    ELSE Ensured("loaded", [c EXCEPT !.loaded = TRUE], 0, 0)

\* the calls that return; every other one raises out of MilvusService.__init__
EnsureReturned == {"none", "created", "loaded"}

\* an existence check that answers true when its query fails
VideoExists_TrueOnError(q, n) == q = "fail" \/ n > 0

\* an existence check that answers false whatever the sink holds
VideoExists_Never(q, n) == FALSE

\* MilvusService.video_exists: q is how the client query ended, n the records
\* the sink holds for the source; a failed query answers False
VideoExists(q, n) == q = "ok" /\ n > 0

\* the width of the transcript_vector field of the collection schema
vector_dim == 768

\* the widths the configured embedding model may have
EmbeddingDims == {vector_dim, 384}

\* what load_config finds at config_path
ConfigFiles == {"valid", "unreadable", "invalid_json"}

StorageTypes == {"excel", "vector_db", "both"}

\* Config.__init__ and load_config: storage_type after the file st was read;
\* an error of the read is logged and the default, StorageType.EXCEL, stays
LoadConfig(cf, st) == IF cf = "valid" THEN st ELSE "excel"

\* video.get('id') of a playlist entry without id
NoId == "None"

\* the lists get_playlist_videos gives main
Playlists == {Videos, <<Videos[1], NoId, Videos[2]>>}

\* no process_video call yet in this run
NoCall ==
    [v |-> "", steps |-> <<>>, query |-> "none", result |-> FALSE]

\* no recovery-mode run yet
NoRecovery ==
    [loaded |-> FALSE, queries |-> TRUE, clean |-> TRUE, inserted |-> {},
     milvus |-> [v \in VideoIds |-> 0], excelRows |-> [v \in VideoIds |-> 0]]

OInit ==
    /\ storage = "unset"
    /\ opc = "idle"
    /\ run = 0
    /\ idx = 0
    /\ milvus = [v \in VideoIds |-> 0]
    /\ excelRows = [v \in VideoIds |-> 0]
    /\ insertCalls = [v \in VideoIds |-> 0]
    /\ processed_count = 0
    /\ skipped_count = 0
    /\ failed_videos = <<>>
    /\ last = NoCall
    /\ coll = NoCollection
    /\ created = 0
    /\ indexes = 0
    /\ ensured = "none"
    /\ config_file = "unset"
    /\ embedding_dim = 0
    /\ playlist = <<>>
    /\ run_mode = "none"
    /\ ending = "none"
    /\ recovery = NoRecovery
    /\ rows_before = [v \in VideoIds |-> 0]
    /\ ensure_failed = "none"

\* main, lines 140-200, normal mode: the configuration, the services, the
\* playlist, the Excel file created anew with the video metadata, the counters
MainStart ==
    /\ opc \in {"idle", "ended"}
    /\ run < MaxRuns
    /\ run' = run + 1
    /\ run_mode' = "normal"
    /\ \E cf \in IF config_file = "unset" THEN ConfigFiles ELSE {config_file},
          fs \in IF storage = "unset" THEN StorageTypes ELSE {storage},
          pl \in IF playlist = <<>> THEN Playlists ELSE {playlist} :
         LET st == LoadConfig(cf, fs) IN
         /\ config_file' = cf
         /\ storage' = st
         /\ playlist' = pl
         /\ \E d \in IF ~VectorActive(st) THEN {embedding_dim}
                     ELSE IF embedding_dim = 0 THEN EmbeddingDims
                     ELSE {embedding_dim} :
              embedding_dim' = d
         /\ \E o \in IF VectorActive(st) THEN EnsureOutcomes ELSE {"ok"} :
              LET en == IF VectorActive(st) THEN EnsureCollectionExists(coll, o)
                        ELSE Ensured("none", coll, 0, 0)
              IN  /\ coll' = en.coll
                  /\ created' = created + en.created
                  /\ indexes' = indexes + en.indexes
                  /\ ensured' = en.result
                  /\ ensure_failed' = IF en.result \in EnsureReturned
                                      THEN ensure_failed ELSE en.result
                  /\ \E saved \in BOOLEAN :
                       IF en.result \notin EnsureReturned
                       THEN \* MilvusService() raised: main ends before its try
                            /\ saved
                            /\ opc' = "ended"
                            /\ ending' = "crashed"
                            /\ idx' = 0
                            /\ UNCHANGED excelRows
                       ELSE IF ExcelActive(st) /\ ~saved
                       THEN \* save_transcripts raised: main logs and exits
                            /\ opc' = "ended"
                            /\ ending' = "exit_1"
                            /\ idx' = 0
                            /\ UNCHANGED excelRows
                       ELSE /\ opc' = "loop"
                            /\ ending' = "none"
                            /\ idx' = 1
                            /\ excelRows' = IF ExcelActive(st)
                                            THEN [v \in VideoIds |-> 0]
                                            ELSE excelRows
    /\ processed_count' = 0
    /\ skipped_count' = 0
    /\ failed_videos' = <<>>
    /\ last' = NoCall
    /\ rows_before' = excelRows
    /\ UNCHANGED <<milvus, insertCalls, recovery>>
    /\ UNCHANGED <<rvars, cvars, evars, ivars, xvars, zvars>>

\* the chunk list of n chunks process_video works on
ChunksOf(n) == SubSeq(<<<<"a">>, <<"i">>>>, 1, n)

\* the client insert succeeds only for vectors of the width of the schema
ClientInsert(ins, d) == ins /\ d = vector_dim

\* what process_video returns: False without id, for a source found in the
\* sink, without chunks and after an exception; True at line 90 otherwise
Returned(chunked, appendCalled, x, insertCalled, inserted) ==
    chunked /\ (appendCalled => x) /\ (insertCalled => inserted)

\* one iteration of main's loop, lines 202-215, over process_video, lines
\* 26-90: q is how the existence query ended, t the chunks of the transcript
\* (-1: get_chunked_transcript raised), x whether the Excel append succeeded,
\* e whether embeddings came back, ins whether the client insert succeeded
ProcessVideo ==
    /\ opc = "loop"
    /\ UNCHANGED <<rvars, cvars, evars, xvars, zvars>>
    /\ UNCHANGED <<collection_before, video_data, transcript_chunks,
                   chunk_embeddings, insert_result>>
    /\ LET v == playlist[idx] IN
       \E q \in {"ok", "fail"}, t \in ChunkOutcomes, x \in BOOLEAN,
          e \in BOOLEAN, ins \in BOOLEAN :
         LET hasId == v # NoId
             check == hasId /\ VectorActive(storage)
             exists == check /\ VideoExists(q, milvus[v])
             s0 == IF check THEN <<"video_exists">> ELSE <<>>
             resolved == hasId /\ ~exists
             s1 == IF resolved THEN s0 \o <<"get_chunked_transcript">> ELSE s0
             chunked == resolved /\ t > 0
             appendCalled == chunked /\ ExcelActive(storage)
             s2 == IF appendCalled THEN s1 \o <<"append_transcripts">> ELSE s1
             appended == appendCalled /\ x
             embedCalled == chunked /\ (appendCalled => x) /\ VectorActive(storage)
             s3 == IF embedCalled THEN s2 \o <<"generate_embeddings">> ELSE s2
             insertCalled == embedCalled /\ e
             s4 == IF insertCalled THEN s3 \o <<"insert_transcript_chunks">> ELSE s3
             vectors == IF e THEN Encode(ChunksOf(t)) ELSE <<>>
             call == insert_transcript_chunks(collection, v, ChunksOf(t),
                         vectors, ClientInsert(ins, embedding_dim))
             inserted == insertCalled /\ call.kind = "ok"
             result == Returned(chunked, appendCalled, x, insertCalled, inserted)
         IN  /\ collection' = IF insertCalled THEN call.collection ELSE collection
             /\ milvus' = IF inserted THEN [milvus EXCEPT ![v] = @ + t] ELSE milvus
             /\ excelRows' = IF appended THEN [excelRows EXCEPT ![v] = @ + t]
                             ELSE excelRows
             /\ insertCalls' = IF insertCalled THEN [insertCalls EXCEPT ![v] = @ + 1]
                               ELSE insertCalls
             /\ last' = [v |-> v, steps |-> s4,
                         query |-> IF check THEN q ELSE "none", result |-> result]
             /\ processed_count' = IF result THEN processed_count + 1
                                   ELSE processed_count
             /\ skipped_count' = IF result THEN skipped_count ELSE skipped_count + 1
             /\ failed_videos' = IF result THEN failed_videos
                                 ELSE Append(failed_videos, v)
    /\ idx' = idx + 1
    /\ opc' = IF idx = Len(playlist) THEN "summary" ELSE "loop"
    /\ UNCHANGED <<storage, run, coll, created, indexes, ensured, config_file,
                   embedding_dim, playlist, run_mode, ending, recovery,
                   rows_before, ensure_failed>>

\* ', '.join(failed_videos) raises TypeError for an item that is no string
JoinRaises(ids) == \E j \in 1..Len(ids) : ids[j] = NoId

\* main, lines 217-231: the summary is logged, then the failed ids when there
\* are any; an exception is logged by main's except and the process exits 1
Summary ==
    /\ opc = "summary"
    /\ opc' = "ended"
    /\ ending' = IF failed_videos # <<>> /\ JoinRaises(failed_videos)
                 THEN "exit_1" ELSE "summary"
    /\ UNCHANGED <<storage, run, idx, milvus, excelRows, insertCalls,
                   processed_count, skipped_count, failed_videos, last, coll,
                   created, indexes, ensured, config_file, embedding_dim,
                   playlist, run_mode, recovery, rows_before, ensure_failed>>
    /\ UNCHANGED <<rvars, pvars>>

\* the group after position i of the sources that have rows in the sheet, in
\* the order of groupby (sorted by source id); 0 when there is none
NextGroup(rows, i) ==
    IF \E j \in (i + 1)..Len(Videos) : rows[Videos[j]] > 0
    THEN CHOOSE j \in (i + 1)..Len(Videos) :
            /\ rows[Videos[j]] > 0
            /\ \A k \in (i + 1)..(j - 1) : rows[Videos[k]] = 0
    ELSE 0

\* main, lines 140-176, with the load_excel_to_milvus flag set in a valid
\* configuration, and load_excel_to_milvus, lines 92-108: the services, the
\* sheets of the Excel file (rd: the read succeeds), the groups
RecoveryStart ==
    /\ opc \in {"idle", "ended"}
    /\ run < MaxRuns
    /\ run' = run + 1
    /\ run_mode' = "recovery"
    /\ config_file \in {"unset", "valid"}
    /\ config_file' = "valid"
    /\ \E st \in IF storage = "unset" THEN StorageTypes ELSE {storage},
          rd \in BOOLEAN :
         /\ storage' = st
         /\ \E d \in IF ~VectorActive(st) THEN {embedding_dim}
                     ELSE IF embedding_dim = 0 THEN EmbeddingDims
                     ELSE {embedding_dim} :
              embedding_dim' = d
         /\ \E o \in IF VectorActive(st) THEN EnsureOutcomes ELSE {"ok"} :
              LET en == IF VectorActive(st) THEN EnsureCollectionExists(coll, o)
                        ELSE Ensured("none", coll, 0, 0)
                  sheets == rd /\ NextGroup(excelRows, 0) # 0
              IN  /\ coll' = en.coll
                  /\ created' = created + en.created
                  /\ indexes' = indexes + en.indexes
                  /\ ensured' = en.result
                  /\ ensure_failed' = IF en.result \in EnsureReturned
                                      THEN ensure_failed ELSE en.result
                  /\ IF en.result \notin EnsureReturned
                     THEN \* MilvusService() raised: main ends before its try
                          /\ rd
                          /\ opc' = "ended" /\ ending' = "crashed" /\ idx' = 0
                          /\ recovery' = [NoRecovery EXCEPT !.milvus = milvus,
                                                            !.excelRows = excelRows]
                     ELSE IF ~VectorActive(st)
                     THEN \* required services not initialized
                          /\ rd
                          /\ opc' = "ended" /\ ending' = "returned" /\ idx' = 0
                          /\ recovery' = [NoRecovery EXCEPT !.milvus = milvus,
                                                            !.excelRows = excelRows]
                     ELSE /\ opc' = IF sheets THEN "recover" ELSE "ended"
                          /\ ending' = IF sheets THEN "none" ELSE "returned"
                          /\ idx' = IF sheets THEN NextGroup(excelRows, 0) ELSE 0
                          /\ recovery' = [NoRecovery EXCEPT !.loaded = rd,
                                                            !.milvus = milvus,
                                                            !.excelRows = excelRows]
    /\ processed_count' = 0
    /\ skipped_count' = 0
    /\ failed_videos' = <<>>
    /\ last' = NoCall
    /\ rows_before' = excelRows
    /\ UNCHANGED <<milvus, excelRows, insertCalls, playlist>>
    /\ UNCHANGED <<rvars, cvars, evars, ivars, xvars, zvars>>

\* one iteration of the loop of load_excel_to_milvus, lines 110-136, over the
\* group of a source: q is how the existence query ended, e whether embeddings
\* came back, ins whether the client insert succeeded; an exception of the
\* insert ends the run in main's except
RecoverVideo ==
    /\ opc = "recover"
    /\ UNCHANGED <<rvars, cvars, evars, xvars, zvars>>
    /\ UNCHANGED <<collection_before, video_data, transcript_chunks,
                   chunk_embeddings, insert_result>>
    /\ LET v == Videos[idx] IN
       \E q \in {"ok", "fail"}, e \in BOOLEAN, ins \in BOOLEAN :
         LET n == excelRows[v]
             exists == VideoExists(q, milvus[v])
             embedCalled == ~exists
             s1 == IF embedCalled THEN <<"video_exists", "generate_embeddings">>
                   ELSE <<"video_exists">>
             insertCalled == embedCalled /\ e
             s2 == IF insertCalled THEN s1 \o <<"insert_transcript_chunks">> ELSE s1
             call == insert_transcript_chunks(collection, v, ChunksOf(n),
                         Encode(ChunksOf(n)), ClientInsert(ins, embedding_dim))
             inserted == insertCalled /\ call.kind = "ok"
             raised == insertCalled /\ call.kind = "raise"
             next == NextGroup(excelRows, idx)
         IN  /\ collection' = IF insertCalled THEN call.collection ELSE collection
             /\ milvus' = IF inserted THEN [milvus EXCEPT ![v] = @ + n] ELSE milvus
             /\ insertCalls' = IF insertCalled THEN [insertCalls EXCEPT ![v] = @ + 1]
                               ELSE insertCalls
             /\ last' = [v |-> v, steps |-> s2, query |-> q, result |-> inserted]
             /\ processed_count' = IF inserted THEN processed_count + 1
                                   ELSE processed_count
             /\ recovery' = [recovery EXCEPT
                                !.queries = @ /\ q = "ok",
                                !.clean = @ /\ (embedCalled => e) /\ ~raised,
                                !.inserted = IF insertCalled THEN @ \cup {v} ELSE @]
             /\ opc' = IF raised \/ next = 0 THEN "ended" ELSE "recover"
             /\ ending' = IF raised THEN "exit_1"
                          ELSE IF next = 0 THEN "returned" ELSE "none"
             /\ idx' = IF raised THEN idx ELSE next
    /\ UNCHANGED <<storage, run, excelRows, skipped_count, failed_videos, coll,
                   created, indexes, ensured, config_file, embedding_dim,
                   playlist, run_mode, rows_before, ensure_failed>>

\* ------------------------------------ youtube_service.py: get_playlist_videos
PlaylistIds == {"PL1", "PL2"}

\* the videos the service lists for each playlist
Catalogue == [pid \in PlaylistIds |-> IF pid = "PL1" THEN Videos ELSE <<Videos[2]>>]

\* how a get_playlist_videos call ended: the list it returned or a raise,
\* the cache file it left, whether it contacted the service
PlaylistResult(kind, videos, cache_file, contacted) ==
    [kind |-> kind, videos |-> videos, file |-> cache_file,
     contacted |-> contacted]

\* lines 53-78: the videos whose lookup raised are logged and left out
Retrieved(listed, failed) == SelectSeq(listed, LAMBDA v : v \notin failed)

\* get_playlist_videos: the cached list when the cache file exists; [] and no
\* cache file when the playlist cannot be fetched; else the videos retrieved,
\* written to the cache file
get_playlist_videos(cache_file, listed, fetch, failed, w) ==
    IF cache_file.state = "ok"
    THEN PlaylistResult("list", cache_file.data, cache_file, FALSE)
    ELSE IF cache_file.state = "corrupt"
    THEN PlaylistResult("raise", <<>>, cache_file, FALSE)
    ELSE IF fetch = "fails" THEN PlaylistResult("list", <<>>, NoFile, TRUE)
    ELSE LET videos == Retrieved(listed, failed)
         IN  CASE w = "written" ->
                    PlaylistResult("list", videos, GoodFile(videos), TRUE)
               [] w = "open_failed" ->
                    PlaylistResult("list", <<>>, NoFile, TRUE)
               [] OTHER -> PlaylistResult("list", <<>>, CorruptFile, TRUE)

\* a call: its playlist, the cache file it found, how the fetch went, the
\* videos whose lookup failed, its result
CatalogueCall(pid, before, fetch, failed, res) ==
    [playlist_id |-> pid, before |-> before, fetch |-> fetch,
     failed |-> failed, res |-> res]

YInit ==
    /\ playlist_cache = [pid \in PlaylistIds |-> NoFile]
    /\ catalogue_call =
          CatalogueCall("none", NoFile, "none", {},
                        PlaylistResult("none", <<>>, NoFile, FALSE))

\* one call of get_playlist_videos
GetPlaylistVideos ==
    /\ \E pid \in PlaylistIds, fetch \in {"ok", "fails"},
          failed \in SUBSET VideoIds, w \in WriteOutcomes :
         LET res == get_playlist_videos(playlist_cache[pid], Catalogue[pid],
                                        fetch, failed, w)
         IN  /\ playlist_cache' = [playlist_cache EXCEPT ![pid] = res.file]
             /\ catalogue_call' = CatalogueCall(pid, playlist_cache[pid],
                                                fetch, failed, res)
    /\ UNCHANGED <<rvars, ovars, cvars, evars, ivars, xvars, nvars, wvars,
                   lvars>>

\* ------------------------------------------- main.py: load_excel_to_milvus
\* the titles a recovery run reads from the sheet, in sorting order, and the
\* missing value
ReplayTitles == <<"T", "U">>

\* the sheets a recovery run reads: the rows of up to MaxAppends calls of
\* append_transcripts, one after the other
ReplayBlocks ==
    {TranscriptRows(v, t, c) :
        v \in VideoIds, t \in {ReplayTitles[k] : k \in 1..Len(ReplayTitles)}
                               \cup {NaN},
        c \in InsertChunkLists \ {<<>>}}

RECURSIVE Flatten(_)
Flatten(blocks) ==
    IF blocks = <<>> THEN <<>> ELSE Head(blocks) \o Flatten(Tail(blocks))

ReplayTables ==
    {Flatten(b) : b \in UNION {[1..k -> ReplayBlocks] : k \in 0..MaxAppends}}

\* the records the sink holds for the sources inserted before
StoredFor(present) ==
    LET one(v) == IF v \in present
                  THEN <<Record(v, 0, <<"a">>, Embed(<<"a">>))>> ELSE <<>>
    IN  one(Videos[1]) \o one(Videos[2])

\* transcripts_df.groupby(['video_id', 'video_title', 'video_url']): the keys
\* in sorting order; a row with a missing key value belongs to no group
GroupKeys ==
    [k \in 1..(Len(Videos) * Len(ReplayTitles)) |->
        [video_id |-> Videos[((k - 1) \div Len(ReplayTitles)) + 1],
         video_title |-> ReplayTitles[((k - 1) % Len(ReplayTitles)) + 1]]]

\* the rows of one group, in the order of the sheet
GroupOf(df, key) ==
    SelectSeq(df, LAMBDA r : /\ r.video_id = key.video_id
                             /\ r.video_title = key.video_title)

\* generate_embeddings(chunks) of the recovery run: [] when encoding fails
ReplayEmbeddings(chunks, encode_ok) ==
    IF encode_ok THEN Encode(chunks) ELSE <<>>

\* lines 111-136: the groups one after the other; a group whose source the
\* sink holds is skipped, else its chunks are embedded and inserted
RECURSIVE ReplayLoop(_, _, _, _, _)
ReplayLoop(df, k, stored, inserts, encode_ok) ==
    IF k > Len(GroupKeys) THEN [collection |-> stored, inserts |-> inserts]
    ELSE LET key == GroupKeys[k]
             group == GroupOf(df, key)
             held == Len(SelectSeq(stored,
                                   LAMBDA r : r.video_id = key.video_id))
             chunks == [j \in 1..Len(group) |-> group[j].transcript_chunk]
             embs == ReplayEmbeddings(chunks, encode_ok)
         IN  IF group = <<>> \/ VideoExists("ok", held) \/ embs = <<>>
             THEN ReplayLoop(df, k + 1, stored, inserts, encode_ok)
             ELSE ReplayLoop(df, k + 1,
                      insert_transcript_chunks(stored, key.video_id, chunks,
                                               embs, TRUE).collection,
                      Append(inserts, [video_id |-> key.video_id,
                                       chunks |-> chunks]),
                      encode_ok)

\* load_excel_to_milvus on the sheets load_transcripts gave
load_excel_to_milvus(sheets, stored, encode_ok) ==
    IF sheets.kind = "empty" THEN [collection |-> stored, inserts |-> <<>>]
    ELSE ReplayLoop(sheets.Transcripts, 1, stored, <<>>, encode_ok)

\* what a recovery run read, what the sink held, whether encoding worked,
\* what the sink holds now and the insert calls made
Replay(df, before, encode_ok, after, inserts) ==
    [df |-> df, before |-> before, encode_ok |-> encode_ok, after |-> after,
     inserts |-> inserts, done |-> TRUE]

LInit ==
    replay = [Replay(<<>>, <<>>, TRUE, <<>>, <<>>) EXCEPT !.done = FALSE]

\* one recovery run
LoadExcelToMilvus ==
    /\ ~replay.done
    /\ \E df \in ReplayTables, present \in SUBSET VideoIds,
          encode_ok \in BOOLEAN :
         LET book == [EmptyBook EXCEPT !.hasTranscripts = df # <<>>,
                                       !.Transcripts = ToExcel(df)]
             sheets == load_transcripts(book, "none")
             r == load_excel_to_milvus(sheets, StoredFor(present), encode_ok)
         IN  replay' = Replay(IF sheets.kind = "empty" THEN <<>>
                              ELSE sheets.Transcripts,
                              StoredFor(present), encode_ok,
                              r.collection, r.inserts)
    /\ UNCHANGED <<rvars, ovars, cvars, evars, ivars, xvars, nvars, wvars,
                   yvars>>

Init ==
    /\ RInit /\ OInit /\ CInit /\ EInit /\ IInit /\ XInit /\ NInit
    /\ WInit /\ LInit /\ YInit

Spec == Init /\ [][Next]_vars

\* the orchestrator alone
NextOrch ==
    \/ MainStart
    \/ ProcessVideo
    \/ Summary
    \/ RecoveryStart
    \/ RecoverVideo

SpecOrch == Init /\ [][NextOrch]_vars

\* the chunker alone
NextChunk == GetChunkedTranscript

SpecChunk == Init /\ [][NextChunk]_vars

\* the embedding service alone
NextEmbed == GenerateEmbeddings

SpecEmbed == Init /\ [][NextEmbed]_vars

\* the vector sink's insert alone
NextInsert == InsertTranscriptChunks

SpecInsert == Init /\ [][NextInsert]_vars

\* the tabular sink alone
NextExcel ==
    \/ SaveTranscripts
    \/ AppendTranscripts
    \/ LoadTranscripts

SpecExcel == Init /\ [][NextExcel]_vars

\* the connection bootstrap of the vector sinks alone
NextConnect ==
    \/ WeaviateConnect
    \/ WeaviateAttempt
    \/ MilvusConnect

SpecConnect == Init /\ [][NextConnect]_vars

\* two writers of the Excel file at once
NextConcurrent ==
    \/ CreateWorkbook
    \/ \E p \in Writers : AppendRead(p)
    \/ \E p \in Writers : AppendWrite(p)

SpecConcurrent == Init /\ [][NextConcurrent]_vars

\* the recovery run alone
NextReplay == LoadExcelToMilvus

SpecReplay == Init /\ [][NextReplay]_vars

\* the catalogue reader alone
NextPlaylist == GetPlaylistVideos

SpecPlaylist == Init /\ [][NextPlaylist]_vars

\* ------------------------------------------------------------ claims
Strategies(a) == [j \in 1..Len(a) |-> a[j].s]
IsPrefix(x, y) == Len(x) <= Len(y) /\ x = SubSeq(y, 1, Len(x))
NoTranscript == {"none", "empty", "raise"}
\* every strategy of the call but the last one yielded no transcript, and one
\* that yielded a transcript ended the call
OnlyLastYields ==
    \A j \in 1..Len(attempts) :
        attempts[j].r = "text" => j = Len(attempts) /\ pc = "done"

\* C1: when the standard caption call raised 'captions disabled', the
\* strategies are attempted in the order translated, auto, audio; auto only
\* after translated yielded no transcript, audio only after both yielded
\* none, and a strategy that yields a transcript ends the call.
C1_DisabledOrder ==
    path = "disabled" =>
        /\ IsPrefix(Strategies(attempts),
                    <<"standard_caption", "translated_caption", "auto_caption",
                      "audio_transcription">>)
        /\ OnlyLastYields
        /\ pc \in {"translated", "track"} => Len(attempts) = 1
        /\ pc = "auto" => Len(attempts) = 2 /\ attempts[2].r \in NoTranscript
        /\ pc \in {"audio", "whisper"} =>
              /\ Len(attempts) = 3
              /\ attempts[2].r \in NoTranscript
              /\ attempts[3].r \in NoTranscript

C1_Witness ==
    /\ path = "disabled"
    /\ pc = "done"
    /\ Strategies(attempts) = <<"standard_caption", "translated_caption",
                                "auto_caption", "audio_transcription">>
    /\ winner = "audio_transcription"

\* C3: a call that follows a call won by a non-cached strategy reads the
\* cache file, attempts no external strategy and returns the text the call
\* before returned.
C3_CachedCallAttemptsNothing ==
    (pc = "done" /\ prev.winner \in NonCachedMethods) =>
        Strategies(attempts) = <<"cached">>

C3_SecondCallSameText ==
    (pc = "done" /\ prev.winner \in NonCachedMethods /\ winner = "cached") =>
        ret = prev.ret

\* C4: get_transcript returns null only when the audio path was attempted
\* last and failed, after every caption strategy reachable from the standard
\* caption outcome was attempted and yielded no transcript.
ChainOf(p) ==
    CASE p = "disabled" -> <<"standard_caption", "translated_caption",
                             "auto_caption", "audio_transcription">>
      [] p = "notfound" -> <<"standard_caption", "auto_caption",
                             "audio_transcription">>
      [] OTHER -> <<"standard_caption", "audio_transcription">>

C4_NullOnlyAfterAll ==
    (pc = "done" /\ ret.kind = "null") =>
        /\ path \in {"disabled", "notfound", "other"}
        /\ Strategies(attempts) = ChainOf(path)
        /\ \A j \in 1..Len(attempts) : attempts[j].r \in NoTranscript
        /\ attempts[Len(attempts)].r \in {"none", "raise"}

C4_Witness ==
    /\ pc = "done"
    /\ ret.kind = "null"
    /\ path = "disabled"
    /\ attempts[2].r = "none"
    /\ attempts[3].r = "none"

\* C5: whenever a strategy of the call succeeded (the cache file was read, or
\* a payload was fetched and cached), get_transcript returns a non-empty
\* string.
C5_SuccessIsNonEmpty ==
    (pc = "done" /\ \E j \in 1..Len(attempts) : attempts[j].r \in {"text", "empty"})
        => Truthy(ret)

\* C6: no exception propagates out of get_transcript.
C6_NeverRaises == ret.kind # "raise"

\* C7: when the standard caption call raised 'no caption found', auto is
\* attempted, then audio only if auto yielded nothing; translated is never
\* attempted.
C7_NotFoundOrder ==
    path = "notfound" =>
        /\ IsPrefix(Strategies(attempts),
                    <<"standard_caption", "auto_caption", "audio_transcription">>)
        /\ OnlyLastYields
        /\ pc \notin {"translated", "track"}
        /\ pc = "auto" => Len(attempts) = 1
        /\ pc \in {"audio", "whisper"} =>
              Len(attempts) = 2 /\ attempts[2].r \in NoTranscript

C7_Witness ==
    /\ path = "notfound"
    /\ pc = "done"
    /\ Strategies(attempts) = <<"standard_caption", "auto_caption",
                                "audio_transcription">>

\* C8: when the standard caption state fails with any other exception (a
\* failed cache write too), the call goes directly to the audio path and
\* returns null if the audio path raises or fails.
C8_OtherGoesToAudio ==
    path = "other" =>
        /\ IsPrefix(Strategies(attempts),
                    <<"standard_caption", "audio_transcription">>)
        /\ pc \in {"audio", "whisper", "done"}
        /\ (pc = "done" /\ attempts[Len(attempts)].r \in {"none", "raise"})
              => ret = Null

C8_Witness ==
    /\ path = "other"
    /\ pc = "done"
    /\ cache.state = "corrupt"
    /\ attempts[Len(attempts)].r = "raise"
    /\ ret = Null

\* C9: when get_transcript returns a transcript of a non-cached strategy, the
\* cache file exists and holds exactly the payload that strategy obtained,
\* and the text returned is that payload formatted.
C9_CacheHoldsWinner ==
    (pc = "done" /\ winner \in NonCachedMethods) =>
        /\ cache = GoodFile(winPayload)
        /\ ret.kind = "str"
        /\ ret.text = IF winner = "audio_transcription"
                      THEN Strip(cache.data[1].text)
                      ELSE FormatTranscript(cache.data)

C9_Witness ==
    /\ pc = "done"
    /\ winner = "auto_caption"
    /\ attempts[2].r = "empty"
    /\ ret.text # <<>>

\* C10: the record a resolution caches carries the resolution method that
\* produced it.
ResolutionMethodOf(item) ==
    IF "resolution_method" \in DOMAIN item THEN item.resolution_method ELSE "untagged"

C10_ProvenanceTagged ==
    (pc = "done" /\ winner \in NonCachedMethods /\ cache.state = "ok") =>
        \A j \in 1..Len(cache.data) : ResolutionMethodOf(cache.data[j]) = winner

\* C2 as stated: across the runs insert_transcript_chunks is called at most
\* once per source id, whatever the external services do.
C2_InsertCalledAtMostOnce == \A v \in VideoIds : insertCalls[v] <= 1

\* C2 amended: a source that has a record in the vector sink and whose
\* existence query succeeds is skipped before resolution, chunking, embedding
\* and insert; insert_transcript_chunks is called for a source only when the
\* sink holds no record of it or the existence query of that call failed.
C2_SkipUnlessQueryFails ==
    [][\A v \in VideoIds :
          /\ (last'.v = v /\ VectorActive(storage) /\ milvus[v] > 0
                /\ last'.query = "ok" /\ idx' # idx /\ opc = "loop")
               => /\ last'.steps = <<"video_exists">>
                  /\ ~last'.result
                  /\ milvus'[v] = milvus[v]
                  /\ insertCalls'[v] = insertCalls[v]
          /\ insertCalls'[v] # insertCalls[v]
               => milvus[v] = 0 \/ last'.query = "fail"]_vars

C2_Witness ==
    /\ run = 2
    /\ last.v \in VideoIds
    /\ last.steps = <<"video_exists">>
    /\ last.query = "ok"
    /\ milvus[last.v] > 0
    /\ insertCalls[last.v] = 1

\* C11: a cache file of the source is never written while a cache file of
\* that source already exists: every step that changes the file starts from
\* no file.
C11_NeverWrittenOverExistingFile ==
    [][cache' # cache => cache.state = "absent"]_vars

\* ---------------------------------------- claims on the chunker
Ceil(a, b) == (a + b - 1) \div b

\* the call the state records chunked a transcript with a valid configuration
ChunkedValid ==
    /\ chunk_result.kind # "none"
    /\ Truthy(full_transcript)
    /\ 0 <= overlap
    /\ overlap < chunk_size

\* the window of text that starts at offset off
Window(text, off, size) ==
    SubSeq(text, off + 1, Min(off + size, Len(text)))

\* the properties C12 states of the chunks cs of text
WindowsOf(text, cs, size, o) ==
    LET step == size - o
    IN  /\ Len(cs) = Ceil(Len(text), step)
        /\ \A k \in 1..Len(cs) :
             /\ cs[k] = Window(text, (k - 1) * step, size)
             /\ cs[k] # <<>>
             /\ Len(cs[k]) <= size
        /\ \A k \in 1..Len(cs) : \A m \in k..Len(cs) :
             Len(cs[k]) < size => Len(cs[m]) < size

\* C12: for a non-empty transcript of length L and 0 <= overlap < chunk_size
\* get_chunked_transcript returns ceil(L / (chunk_size - overlap)) chunks,
\* chunk i being the text from offset i * (chunk_size - overlap) up to
\* chunk_size characters, all non-empty, only trailing ones shorter; for
\* L = 2500 with the defaults 1000 and 100 these are three chunks at offsets
\* 0, 900 and 1800, the last of length 700.
C12_ChunkWindows ==
    /\ ChunkedValid =>
         /\ chunk_result.kind = "list"
         /\ WindowsOf(full_transcript.text, chunk_result.chunks,
                      chunk_size, overlap)
    /\ LET doc == [j \in 1..2500 |-> j]
           r == get_chunked_transcript(Str(doc), default_chunk_size,
                                       default_overlap)
       IN  /\ r.kind = "list"
           /\ Len(r.chunks) = 3
           /\ r.chunks[1] = SubSeq(doc, 1, 1000)
           /\ r.chunks[2] = SubSeq(doc, 901, 1900)
           /\ r.chunks[3] = SubSeq(doc, 1801, 2500)
           /\ Len(r.chunks[3]) = 700

C12_Witness ==
    /\ ChunkedValid
    /\ overlap > 0
    /\ Len(chunk_result.chunks) >= 3
    /\ Len(chunk_result.chunks[1]) = chunk_size
    /\ Len(chunk_result.chunks[Len(chunk_result.chunks)]) < chunk_size

\* the first k characters of t, or all of t
Take(t, k) == SubSeq(t, 1, Min(k, Len(t)))

\* the first step characters of every chunk but the last, then the last chunk
RECURSIVE Reassemble(_, _)
Reassemble(cs, step) ==
    IF cs = <<>> THEN <<>>
    ELSE IF Len(cs) = 1 THEN cs[1]
    ELSE Take(Head(cs), step) \o Reassemble(Tail(cs), step)

\* C13: for 0 <= overlap < chunk_size and every transcript text, the first
\* chunk_size - overlap characters of every chunk but the last followed by
\* the whole last chunk are the text, and the chunk indexes of the rows built
\* from the chunks are 0, 1, 2, ... in order.
C13_ChunksReassemble ==
    (chunk_result.kind # "none" /\ full_transcript.kind = "str"
       /\ 0 <= overlap /\ overlap < chunk_size) =>
        /\ chunk_result.kind = "list"
        /\ Reassemble(chunk_result.chunks, chunk_size - overlap)
             = full_transcript.text
        /\ LET rows == TranscriptData("abc123", chunk_result.chunks)
           IN  \A k \in 1..Len(rows) :
                 /\ rows[k].chunk_index = k - 1
                 /\ rows[k].transcript_chunk = chunk_result.chunks[k]

C13_Witness ==
    /\ ChunkedValid
    /\ overlap > 0
    /\ Len(chunk_result.chunks) >= 3
    /\ \E j, k \in 1..Len(full_transcript.text) :
         full_transcript.text[j] # full_transcript.text[k]
    /\ Reassemble(chunk_result.chunks, chunk_size - overlap)
         = full_transcript.text

\* C14: a call with overlap >= chunk_size on a transcript never completes by
\* returning a chunk list; it is rejected with an error.
C14_DegenerateConfigRejected ==
    (chunk_result.kind # "none" /\ Truthy(full_transcript)
       /\ overlap >= chunk_size) =>
        chunk_result.kind = "raise"

\* ------------------------------ claims on the embedding service
\* no model.encode call of the recorded generate_embeddings call raised
NoBatchFailed ==
    failing_batch = 0 \/ failing_batch > NumBatches(texts, batch_size)

\* C15: when no batch fails, generate_embeddings returns one vector per text,
\* the i-th being the embedding of the i-th text, whatever the batch size
\* (batch size 1 and batch size len(texts) give the same list); the empty
\* input gives the empty list.
C15_EmbeddingsInOrder ==
    /\ NoBatchFailed =>
         /\ Len(embeddings) = Len(texts)
         /\ \A k \in 1..Len(texts) : embeddings[k] = Embed(texts[k])
         /\ embeddings = generate_embeddings(texts, 1, 0)
         /\ texts # <<>> => embeddings = generate_embeddings(texts, Len(texts), 0)
    /\ texts = <<>> => embeddings = <<>>

C15_Witness ==
    /\ NoBatchFailed
    /\ Len(texts) = 3
    /\ batch_size = 2
    /\ texts[1] # texts[3]
    /\ Len(embeddings) = 3

\* C16: when the embedding of a batch fails the call returns no vector at
\* all: the result never has a length strictly between 0 and len(texts).
C16_NoPartialEmbeddings ==
    /\ Len(embeddings) \in {0, Len(texts)}
    /\ ~NoBatchFailed => embeddings = <<>>

C16_Witness ==
    /\ failing_batch = 2
    /\ NumBatches(texts, batch_size) >= 2
    /\ embeddings = <<>>

\* ------------------------------------ claims on the vector sink
\* C17: insert_transcript_chunks raises and writes nothing when the lengths
\* differ, leaves the collection as it was whenever it raises, and a call
\* that succeeds adds one record per chunk, as many as there are embeddings.
C17_InsertAllOrNothing ==
    insert_result # "none" =>
        /\ Len(transcript_chunks) # Len(chunk_embeddings) =>
             insert_result = "raise"
        /\ insert_result = "raise" => collection = collection_before
        /\ insert_result = "ok" =>
             /\ Len(transcript_chunks) = Len(chunk_embeddings)
             /\ Len(collection) = Len(collection_before) + Len(transcript_chunks)
             /\ SubSeq(collection, 1, Len(collection_before)) = collection_before

C17_Witness ==
    /\ insert_result = "raise"
    /\ Len(transcript_chunks) = 2
    /\ Len(chunk_embeddings) = 2
    /\ chunk_embeddings[2] = BadEmbedding
    /\ collection_before # <<>>
    /\ collection = collection_before

\* the records the collection holds for source v
RecordsOf(v) == SelectSeq(collection, LAMBDA r : r.video_id = v)

\* C18: after any sequence of orchestrator runs the chunk_index values stored
\* for one source are contiguous from 0 and the identifiers of the records of
\* the collection are pairwise distinct.
C18_StoredIdsDistinct ==
    /\ \A v \in VideoIds :
         LET rs == RecordsOf(v)
             indexesOf == {rs[k].chunk_index : k \in 1..Len(rs)}
         IN  indexesOf = 0..(Cardinality(indexesOf) - 1)
    /\ \A j, k \in 1..Len(collection) :
         j # k => collection[j].id # collection[k].id

\* C19: however often MilvusService is constructed, _ensure_collection_exists
\* creates the collection at most once and builds the index at most once,
\* never fails because the collection exists already, and leaves the
\* collection existing and loaded whenever it returns.
C19_EnsureIdempotent ==
    /\ created <= 1
    /\ indexes <= 1
    /\ ensured # "already_exists"
    /\ ensured \in {"created", "loaded"} => coll.exists /\ coll.loaded

C19_Witness ==
    /\ run = 2
    /\ ensured = "loaded"
    /\ created = 1
    /\ indexes = 1
    /\ coll.loaded

\* C20: video_exists answers true exactly when its query succeeds and finds a
\* record of the source, and false when the query fails: a query that fails
\* never makes process_video skip the source.
C20_FailedCheckNeverSkips ==
    [][(opc = "loop" /\ idx' # idx /\ VectorActive(storage)
            /\ playlist[idx] # NoId) =>
         LET skipped == last'.steps = <<"video_exists">>
         IN  /\ last'.query \in {"ok", "fail"}
             /\ last'.steps[1] = "video_exists"
             /\ last'.query = "fail" =>
                  /\ ~skipped
                  /\ last'.steps[2] = "get_chunked_transcript"
             /\ last'.query = "ok" => (skipped <=> milvus[last'.v] > 0)]_vars

C20_Witness ==
    /\ last.v \in VideoIds
    /\ last.query = "fail"
    /\ Len(last.steps) >= 2
    /\ last.steps[2] = "get_chunked_transcript"
    /\ Len(RecordsOf(last.v)) > 0


\* ------------------------------------------------- claims: the tabular sink
\* a sheet as pandas reads it: empty cells and NA texts are the missing value
SheetAsRead(sheet) ==
    [j \in 1..Len(sheet) |->
        [sheet[j] EXCEPT !.video_title = IF @ \in NAStrings THEN NaN ELSE @]]

\* the append_transcripts call before returned normally
Appended == excel_call.method = "append_transcripts" /\ excel_call.kind = "ok"

C22_AppendOnNoFileIsSave ==
    (excel_call.method = "append_transcripts" /\ excel_call.rows # <<>>
        /\ ~workbook_before.exists)
    => /\ ExcelResult(excel_call.kind, workbook)
            = save_transcripts(workbook_before, <<>>, excel_call.rows,
                               excel_call.fault)
       /\ excel_call.kind = "ok"
            => /\ workbook.exists /\ workbook.readable
               /\ workbook.Videos = <<>>
               /\ workbook.hasTranscripts
               /\ SheetAsRead(workbook.Transcripts)
                    = SheetAsRead(excel_call.rows)

\* an append of two rows that created the file
C22_Witness ==
    /\ Appended /\ ~workbook_before.exists
    /\ Len(excel_call.rows) = 2 /\ Len(workbook.Transcripts) = 2

\* C23: a successful append to an existing file leaves the Videos table as it
\* was, with the Transcripts table replaced or created; an append of no rows
\* changes nothing and creates no file
C23_AppendLeavesVideos ==
    excel_call.method = "append_transcripts"
    => /\ (excel_call.kind = "ok" /\ workbook_before.exists)
            => /\ workbook.Videos = workbook_before.Videos
               /\ excel_call.rows # <<>> => workbook.hasTranscripts
       /\ excel_call.rows = <<>>
            => excel_call.kind = "ok" /\ workbook = workbook_before

\* an append that created the Transcripts sheet next to a Videos sheet of rows
C23_Witness ==
    /\ Appended /\ excel_call.rows # <<>>
    /\ workbook_before.exists /\ ~workbook_before.hasTranscripts
    /\ workbook_before.Videos # <<>>
    /\ workbook.hasTranscripts

\* C24: load_transcripts never raises and leaves the file alone; it gives every
\* row of the Transcripts table when the file and the table exist and the read
\* succeeds, and the empty result otherwise
C24_LoadNeverRaises ==
    excel_call.method = "load_transcripts"
    => /\ excel_call.kind = "ok"
       /\ workbook = workbook_before
       /\ IF workbook.exists /\ workbook.readable /\ workbook.hasTranscripts
             /\ excel_call.fault = "none"
          THEN /\ excel_call.sheets.kind = "sheets"
               /\ excel_call.sheets.Transcripts
                    = SheetAsRead(workbook.Transcripts)
          ELSE excel_call.sheets = NoSheets

\* a load whose read failed on a file that holds a Transcripts table
C24_Witness ==
    /\ excel_call.method = "load_transcripts" /\ excel_call.fault = "read"
    /\ workbook.readable /\ workbook.hasTranscripts
    /\ excel_call.sheets = NoSheets


\* ------------------------------------------------ claims: the orchestrator
\* the steps of process_video in the order of its code
StepOrder ==
    <<"video_exists", "get_chunked_transcript", "append_transcripts",
      "generate_embeddings", "insert_transcript_chunks">>

Pos(step) == CHOOSE k \in 1..Len(StepOrder) : StepOrder[k] = step

Has(steps, step) == \E k \in 1..Len(steps) : steps[k] = step

\* C25: process_video takes its steps in the order existence check, transcript
\* resolution and chunking, tabular append, embedding, vector insert; the check,
\* the embedding and the insert only with the vector sink active, the append
\* only with the tabular sink active; a source found present is skipped before
\* any resolution; a source without chunks is not processed and nothing is
\* written for it
C25_StepsInOrder ==
    [][(opc = "loop" /\ idx' # idx /\ playlist[idx] # NoId) =>
         LET s == last'.steps
             v == playlist[idx]
             vector == storage \in {"vector_db", "both"}
             tabular == storage \in {"excel", "both"}
         IN  /\ \A j, k \in 1..Len(s) : j < k => Pos(s[j]) < Pos(s[k])
             /\ Has(s, "video_exists") <=> vector
             /\ Has(s, "video_exists") => s[1] = "video_exists"
             /\ Has(s, "append_transcripts")
                  => tabular /\ Has(s, "get_chunked_transcript")
             /\ Has(s, "generate_embeddings")
                  => /\ vector /\ Has(s, "get_chunked_transcript")
                     /\ tabular => Has(s, "append_transcripts")
             /\ Has(s, "insert_transcript_chunks") => Has(s, "generate_embeddings")
             /\ (last'.result /\ tabular) => Has(s, "append_transcripts")
             /\ (last'.result /\ vector) => Has(s, "generate_embeddings")
             /\ (vector /\ last'.query = "ok" /\ milvus[v] > 0)
                  => s = <<"video_exists">>
             /\ ~Has(s, "get_chunked_transcript") => s = <<"video_exists">>
             /\ s[Len(s)] = "get_chunked_transcript"
                  => /\ ~last'.result
                     /\ excelRows' = excelRows /\ milvus' = milvus
                     /\ collection' = collection]_vars

\* a source that went through every step with both sinks active
C25_Witness ==
    /\ run_mode = "normal" /\ storage = "both"
    /\ last.steps = StepOrder
    /\ last.result

\* C26: a source skipped because the vector sink holds it already is counted as
\* skipped and not as failed: its id is not in the list of failed ids
C26_SkippedNotFailed ==
    (run_mode = "normal" /\ last.v \in VideoIds /\ last.query = "ok"
        /\ last.steps = <<"video_exists">>)
    => ~Has(failed_videos, last.v)

\* C27: with the vector sink active a source counts as processed only when its
\* chunks were inserted into the vector sink
C27_ProcessedMeansWritten ==
    (run_mode = "normal" /\ last.v \in VideoIds /\ last.result
        /\ storage \in {"vector_db", "both"})
    => /\ Has(last.steps, "insert_transcript_chunks")
       /\ milvus[last.v] > 0

\* C28: a run whose loop went through every source of the playlist ends with
\* its summary, whatever failed for single sources
C28_RunEndsWithSummary ==
    (run_mode = "normal" /\ opc = "ended" /\ idx > Len(playlist))
    => ending = "summary"

\* C29: after a configuration error (a config file that cannot be read or
\* parsed, an embedding width that is not the width of the schema) no source
\* is resolved, chunked or written
C29_ConfigErrorAborts ==
    (run_mode = "normal"
        /\ \/ config_file \in {"unreadable", "invalid_json"}
           \/ storage \in {"vector_db", "both"} /\ embedding_dim # vector_dim)
    => /\ last = NoCall
       /\ opc \notin {"loop", "summary"}

\* the recovery-mode run has returned without a failed embedding or insert
RecoveryDone ==
    /\ run_mode = "recovery" /\ opc = "ended" /\ ending = "returned"
    /\ recovery.clean

\* what C30 promises of the sinks after the run
RecoveryRepaired ==
    /\ \A v \in VideoIds : excelRows[v] > 0 => milvus[v] > 0
    /\ \A v \in VideoIds :
         recovery.milvus[v] > 0
            => v \notin recovery.inserted /\ milvus[v] = recovery.milvus[v]
    /\ excelRows = recovery.excelRows

C31_UnreachableOnlyAfterRetries ==
    conn = "unreachable"
    => /\ Len(attempt_log) = max_retries
       /\ \A n \in 1..max_retries : attempt_log[n] # "ready"
       /\ slept = [n \in 1..max_retries |-> 2 ^ n]


\* -------------------------------------------- claims: rows kept, the collection
\* C32: every chunk row the Transcripts table held when a run started, that is
\* at the end of the run before, is in it when the run has ended
C32_RowsKept ==
    opc = "ended" => \A v \in VideoIds : excelRows[v] >= rows_before[v]

VectorOps == {"video_exists", "generate_embeddings", "insert_transcript_chunks"}

\* C37: in mode excel no step touches the vector sink; in mode vector_db no
\* step writes the Transcripts sheet; in mode both a source is appended to the
\* sheet before it is inserted into the vector sink; a recovery-mode run only
\* replays the sheet: it fetches no playlist, resolves no transcript and
\* leaves the sheet as it is
C37_ModeDecidesSinks ==
    [][LET s == last'.steps IN
       /\ storage' = "excel"
            => /\ milvus' = milvus /\ collection' = collection
               /\ insertCalls' = insertCalls /\ coll' = coll
               /\ \A k \in 1..Len(s) : s[k] \notin VectorOps
       /\ storage' = "vector_db"
            => /\ excelRows' = excelRows
               /\ ~Has(s, "append_transcripts")
       /\ (storage' = "both" /\ run_mode' = "normal" /\ milvus' # milvus)
            => /\ Has(s, "append_transcripts")
               /\ Pos("append_transcripts") < Pos("insert_transcript_chunks")
               /\ excelRows'[last'.v] > excelRows[last'.v]
       /\ run_mode' = "recovery"
            => /\ playlist' = playlist
               /\ excelRows' = excelRows
               /\ ~Has(s, "get_chunked_transcript")
               /\ ~Has(s, "append_transcripts")]_vars

\* a source inserted in mode vector_db while the sheet holds no row
C37_Witness ==
    /\ storage = "vector_db" /\ run_mode = "normal"
    /\ last.result /\ Has(last.steps, "insert_transcript_chunks")
    /\ \A v \in VideoIds : excelRows[v] = 0


\* ------------------------------------------------ claims: failed resolutions
\* C36: a call of get_transcript that returned None or the empty string
\* leaves no transcript cache file of the source behind
C36_FailureLeavesNoCache ==
    (pc = "done" /\ ret.kind # "raise" /\ ~Truthy(ret)) => cache.state = "absent"


\* ------------------------------------------------ claims: concurrent appends
\* C33: a call of append_transcripts whose file was rewritten between its
\* read and its write leaves the table it read followed by its own rows: the
\* rows written in between are gone; when it found no sheet and the sheet is
\* there by now, it raises and leaves the file without its own rows
C33_StaleWriteDropsRows ==
    \A q \in Writers :
        LET w == writers[q] IN
        (w.pc = "done" /\ w.before.Transcripts # w.seen.Transcripts)
            => \/ /\ w.kind = "ok"
                  /\ w.after.Transcripts
                        = ToExcel(ReadExcel(w.seen.Transcripts) \o w.rows)
               \/ /\ w.kind = "raise"
                  /\ w.branch = "new_sheet"
                  /\ w.after = w.before

\* both calls read the same table before either wrote, both ended well, and
\* the file holds no row of the source the first one appended
C33_Witness ==
    \E p \in Writers, q \in Writers :
        /\ p # q
        /\ writers[p].pc = "done" /\ writers[q].pc = "done"
        /\ writers[p].kind = "ok" /\ writers[q].kind = "ok"
        /\ writers[p].branch = "replace" /\ writers[q].branch = "replace"
        /\ writers[p].seen = writers[q].seen
        /\ writers[q].before = writers[p].after
        /\ file = writers[q].after
        /\ writers[p].rows[1].video_id # writers[q].rows[1].video_id
        /\ \A j \in 1..Len(file.Transcripts) :
               file.Transcripts[j].video_id # writers[p].rows[1].video_id


\* ------------------------------------------------ claims: the recovery run
RowsOf(df, v) == SelectSeq(df, LAMBDA r : r.video_id = v)

\* the index, the identifier and the text of the records of a source
StoredOf(records, v) ==
    LET mine == SelectSeq(records, LAMBDA r : r.video_id = v)
    IN  [j \in 1..Len(mine) |->
            [id |-> mine[j].id, chunk_index |-> mine[j].chunk_index,
             transcript_chunk |-> mine[j].transcript_chunk]]

\* C34: after a recovery run whose encoding worked, every source with rows
\* in the sheet that the sink did not hold was inserted by one call with all
\* of its rows, and the sink holds for it one record per row, with the row's
\* chunk_index and the identifier made of the source id and that index
C34_ReplayInsertsEveryRow ==
    (replay.done /\ replay.encode_ok) =>
        \A v \in VideoIds :
            LET rows == RowsOf(replay.df, v) IN
            (rows # <<>> /\ StoredOf(replay.before, v) = <<>>)
                => /\ Len(SelectSeq(replay.inserts,
                                    LAMBDA c : c.video_id = v)) = 1
                   /\ StoredOf(replay.after, v)
                        = [j \in 1..Len(rows) |->
                            [id |-> RecordId(v, rows[j].chunk_index),
                             chunk_index |-> rows[j].chunk_index,
                             transcript_chunk |-> rows[j].transcript_chunk]]


\* ------------------------------------------------ claims: the catalogue cache
\* C38: a call that found a readable cache file returned its list without
\* contacting the service; a call whose playlist fetch failed returned the
\* empty list and left no cache file; a cache file holds the complete
\* catalogue of its playlist
C38_CacheHoldsCompleteCatalogue ==
    /\ catalogue_call.before.state = "ok"
         => /\ catalogue_call.res.videos = catalogue_call.before.data
            /\ ~catalogue_call.res.contacted
    /\ (catalogue_call.before.state = "absent" /\ catalogue_call.fetch = "fails")
         => /\ catalogue_call.res.videos = <<>>
            /\ playlist_cache[catalogue_call.playlist_id].state = "absent"
    /\ \A pid \in PlaylistIds :
         playlist_cache[pid].state = "ok"
            => playlist_cache[pid].data = Catalogue[pid]

====
